---- MODULE Spec2Model ----
(***************************************************************************)
(* Model of dinja-core's renderer pool (renderer/pool.rs), the runtime     *)
(* cleanup guard (renderer/runtime.rs), the batch render service           *)
(* (service.rs, models.rs, handlers.rs), the JSX guard, the schema         *)
(* extraction and the render pipeline of mdx.rs, the export check and the  *)
(* clean-up of generated code of transform.rs, the component registration  *)
(* script of renderer/scripts.rs, and the error mapping of the bindings.   *)
(*                                                                         *)
(* Workers are OS threads.  Every worker owns one thread-local cache       *)
(* (RENDERER_CACHE) holding, for the single profile Engine, a deque of     *)
(* renderers.  A renderer (execution context) is identified by its         *)
(* creation number 1, 2, 3, ...                                            *)
(***************************************************************************)
EXTENDS Integers, Sequences, FiniteSets, TLC

\* ---------------------------------------------------------------- bounds
NumWorkers == 2
MaxCached == 2
MaxCtx == 3
MaxBatchSize == 2
MaxMdxContentSize == 1
MaxComponentCodeSize == 1
NumComponents == 1
MaxWarm == 2
MaxTextLen == 4
MaxCodeLen == 5
MaxDepth == 2
\* stand for MAX_JSX_PLACEHOLDERS (1000) and MAX_JSX_NESTING_DEPTH (100) of
\* mdx.rs, scaled to the length of the texts
MAX_JSX_PLACEHOLDERS == 2
MAX_JSX_NESTING_DEPTH == 2
MaxChildren == 2
MaxStatements == 3
MaxScanLen == 4
NumPools == 2

Workers == 1..NumWorkers
CtxIds == 1..MaxCtx
NoCtx == 0
\* one more document name than the batch limit, so that a batch can exceed it
DocNames == 1..(MaxBatchSize + 1)
CompNames == 1..NumComponents
\* sizes at and just above the limits
DocSizes == {MaxMdxContentSize, MaxMdxContentSize + 1}
CodeSizes == {MaxComponentCodeSize, MaxComponentCodeSize + 1}

VARIABLES
    cap,        \* RendererPool.max_cached_per_key, shared by all clones of the pool
    alive,      \* alive[w]: worker thread w has not exited
    cache,      \* cache[w]: RENDERER_CACHE of thread w, entry Engine (front = index 1)
    held,       \* held[w]: renderers leased by code running on w outside render_batch
    nextId,     \* number of renderers created so far
    creator,    \* creator[c]: thread that created renderer c (0: not created)
    destroyed,  \* renderers that have been dropped
    tornDown,   \* tornDown[w]: renderers released by CacheEntry::drop on w, in order
    js,         \* js[c]: state of the JavaScript runtime of renderer c
    pc,         \* pc[w]: "idle", "rendering" (in the loop of render_batch), "returned"
    input,      \* input[w]: request of the current render_batch call
    lease,      \* lease[w]: renderer held by the RendererLease of render_batch
    todo,       \* todo[w]: documents the loop of render_batch has not visited yet
    acc,        \* acc[w]: files, errors, succeeded, failed of the running batch
    result,     \* result[w]: what the render_batch call on w returned
    checkouts,  \* checkouts[w]: pool.checkout calls made by the current call
    usedCtx,    \* usedCtx[w]: document -> renderer it was rendered against
    config,     \* the RenderServiceConfig handed to RenderService::new
    service,    \* "none", or what RenderService::new returned: "built" or the error
    content,    \* the text given to protect_jsx_components
    guarded,    \* what protect_jsx_components returned: (result, placeholders)
    restored,   \* what restore_jsx_components returned
    jsxStage,   \* "idle", "input", "protected", "restored"
    code,       \* the component code given to transform_component_code
    compiled,   \* what transform_component_code returned (kind "none": not called)
    stack,      \* the with_runtime calls in progress on a thread, innermost last
    returned,   \* what the with_runtime call that ended last returned
    settings,   \* RenderSettings of the document: output, directives
    page,       \* what the compiler and the engine make of the document's markup
    renders,    \* the render calls made on the renderer for the document, in order
    rendered,   \* what render_with_engine_pipeline returned (kind "none": not called)
    warmed,     \* the last observed pool.warm call: its warm_count, renderers built
    pools,      \* pools[p]: static_dir and max_cached_per_key of RendererPool p
    madeBy,     \* madeBy[c]: the pool whose create_renderer built renderer c (0: none)
    leasePool,  \* leasePool[c]: the pool of the RendererLease holding c (0: no lease)
    call,       \* a Renderer::render call of a binding: binding, input, render_batch's answer
    raised,     \* what that call gave its caller: the outcome, or an exception
    registering,     \* components the bootstrap script has yet to register: name -> code
    jsGlobals,       \* globalThis[name] of the runtime the bootstrap script runs in
    registeredNames, \* globalThis.__registered_component_names
    thrown,          \* the error the bootstrap script threw ("none": it has not thrown)
    registered,      \* the registration that ran last: its name and code
    source,     \* the component source given to the compiler, one statement per line
    emitted,    \* the script text the compiler returned (kind "none": not called)
    loop,       \* protect_jsx_with_children: its locals and where it stands
    scan        \* find_matching_close_tag: its arguments and locals

vars == <<cap, alive, cache, held, nextId, creator, destroyed, tornDown, js,
          pc, input, lease, todo, acc, result, checkouts, usedCtx,
          config, service, content, guarded, restored, jsxStage,
          code, compiled, stack, returned,
          settings, page, renders, rendered,
          warmed, pools, madeBy, leasePool, call, raised,
          registering, jsGlobals, registeredNames, thrown, registered,
          source, emitted, loop, scan>>

poolVars == <<cache, held, nextId, creator, destroyed, tornDown>>
batchVars == <<pc, input, lease, todo, acc, result, checkouts, usedCtx>>
configVars == <<config, service>>
jsxVars == <<content, guarded, restored, jsxStage>>
transformVars == <<code, compiled>>
runtimeVars == <<stack, returned>>
\* the parts of the per-document pipeline that are modelled on their own
pipelineVars == <<settings, page, renders, rendered>>
mdxVars == <<jsxVars, transformVars, runtimeVars, pipelineVars>>
\* several pools used on one thread
manyPoolsVars == <<pools, madeBy, leasePool>>
\* the pool, the service and its configuration
bindingVars == <<call, raised>>
\* the bootstrap script, the clean-up of generated code, the JSX guard's loops
registrationVars == <<registering, jsGlobals, registeredNames, thrown, registered>>
cleanupVars == <<source, emitted>>
scanVars == <<loop, scan>>
scriptVars == <<registrationVars, cleanupVars, scanVars>>
serviceVars == <<cap, alive, js, poolVars, batchVars, configVars, warmed,
                 manyPoolsVars>>

\* ------------------------------------------------------------- sequences
Range(s) == {s[i] : i \in 1..Len(s)}
Last(s) == s[Len(s)]
Front(s) == SubSeq(s, 1, Len(s) - 1)

RECURSIVE Reverse(_)
Reverse(s) == IF s = <<>> THEN <<>> ELSE Append(Reverse(Tail(s)), Head(s))

EmptyFn == [x \in {} |-> 0]


\* ------------------------------------------------- renderer/runtime.rs
\* State of one JsRuntime: the RefCell borrow flag and the globals that the
\* render scripts create and that cleanup_runtime removes.
FreshRuntime ==
    [borrowed |-> FALSE,      \* RefCell<JsRuntime> is mutably borrowed
     context |-> FALSE,       \* globalThis.context is defined
     globals |-> {},          \* component names defined as globalThis[name]
     registry |-> {}]         \* elements of globalThis.__registered_component_names

\* cleanup_runtime: CLEANUP_SCRIPT
cleanup_runtime(rt) ==
    [rt EXCEPT !.globals = rt.globals \ rt.registry,
               !.registry = {},
               !.context = FALSE]

\* RuntimeCleanupGuard::drop: try_borrow_mut, and cleanup only when it succeeds
RuntimeCleanupGuardDrop(rt) ==
    IF rt.borrowed THEN rt ELSE cleanup_runtime(rt)

\* setup_context: defines globalThis.context (also in the script's catch branch)
setup_context(rt) == [rt EXCEPT !.context = TRUE]

\* The bootstrap part of the render script: build_component_registration_script
\* and build_single_component_registration, for the components in reg (the ones
\* whose registration ran before the script ended or threw).
RunBootstrap(rt, reg) ==
    [rt EXCEPT !.globals = rt.globals \cup reg,
               !.registry = rt.registry \cup reg]

\* The closure passed to with_runtime by render_component(_to_schema)
RenderClosure(rt, reg) == RunBootstrap(setup_context(rt), reg)

\* with_runtime.  Locals are  rt (the RefMut)  and then  _cleanup (the guard);
\* Rust drops them in reverse order of declaration: the guard first, while rt
\* still holds the borrow, then rt.
WithRuntimeUnchecked(rt, reg) == [state |-> RenderClosure(rt, reg), ran |-> TRUE]
with_runtime(rt, reg) ==
    IF rt.borrowed
    THEN [state |-> rt, ran |-> FALSE]                       \* try_borrow_mut failed
    ELSE LET borrowedRt == [rt EXCEPT !.borrowed = TRUE]     \* let mut rt = ...
             afterF == RenderClosure(borrowedRt, reg)        \* f(&mut rt)
             afterGuard == RuntimeCleanupGuardDrop(afterF)   \* drop(_cleanup)
         IN [state |-> [afterGuard EXCEPT !.borrowed = FALSE], \* drop(rt)
             ran |-> TRUE]

\* What a with_runtime call returned: the renderer it was made on, Ok or
\* Err, and the number of scripts it executed
NoReturn == [ctx |-> NoCtx, kind |-> "none", scripts |-> 0]
Returned(c, ok, scripts) ==
    [ctx |-> c, kind |-> IF ok THEN "Ok" ELSE "Err", scripts |-> scripts]

\* A with_runtime call in progress on renderer c: it holds the RefMut and the
\* guard; pc is "closure" before the scripts of f have run, "done" after
Frame(c, at) == [ctx |-> c, pc |-> at]

\* ---------------------------------------------------- renderer/pool.rs
\* CacheEntry::pop: pop_back
CacheEntryPopFront(q) == [renderer |-> Head(q), rest |-> Tail(q)]
CacheEntryPeek(q) == [renderer |-> Last(q), rest |-> q]
CacheEntryPop(q) == [renderer |-> Last(q), rest |-> Front(q)]

\* CacheEntry::push_with_limit: pop_front when len >= max_size, then push_back
PushWithLimitEvictBack(q, r, max_size) ==
    LET full == Len(q) >= max_size /\ q # <<>>
    IN [queue |-> Append(IF full THEN Front(q) ELSE q, r),
        evicted |-> IF full THEN {Last(q)} ELSE {}]
push_with_limit(q, r, max_size) ==
    LET full == Len(q) >= max_size /\ q # <<>>
    IN [queue |-> Append(IF full THEN Tail(q) ELSE q, r),
        evicted |-> IF full THEN {Head(q)} ELSE {}]

\* CacheEntry::drop: while pop_back().is_some() {} -- the order of release
CacheEntryDrop(q) == Reverse(q)

\* RENDERER_CACHE is thread_local!: code running on thread w sees the cache of w
SharedCache(w) == 1
CacheOf(w) == w

\* RendererPool::take_cached_renderer
take_cached_renderer(w) ==
    IF cache[CacheOf(w)] = <<>>
    THEN [found |-> FALSE, renderer |-> NoCtx, rest |-> <<>>]
    ELSE LET p == CacheEntryPop(cache[CacheOf(w)])
         IN [found |-> TRUE, renderer |-> p.renderer, rest |-> p.rest]

\* RendererPool::checkout on thread w obtaining renderer c: a cached renderer,
\* or else a new one from create_renderer (JsRenderer::new), which can fail.
CheckoutOk(w, c) ==
    LET t == take_cached_renderer(w)
    IN IF t.found
       THEN /\ c = t.renderer
            /\ cache' = [cache EXCEPT ![CacheOf(w)] = t.rest]
            /\ UNCHANGED <<nextId, creator>>
       ELSE /\ nextId < MaxCtx
            /\ c = nextId + 1
            /\ nextId' = c
            /\ creator' = [creator EXCEPT ![c] = w]
            /\ UNCHANGED cache

\* checkout returns Err: nothing cached and create_renderer fails
CheckoutFailsAnyway(w) == TRUE
CheckoutCanFail(w) == ~take_cached_renderer(w).found

\* RendererPool::return_renderer on thread w
return_renderer(w, c) ==
    LET p == push_with_limit(cache[CacheOf(w)], c, cap)
    IN /\ cache' = [cache EXCEPT ![CacheOf(w)] = p.queue]
       /\ destroyed' = destroyed \cup p.evicted

\* RendererLease::drop: the renderer, if still there, goes back to the pool
LeaseDropLeaks(w, c) == UNCHANGED <<cache, destroyed>>
RendererLeaseDrop(w, c) ==
    IF c # NoCtx THEN return_renderer(w, c) ELSE UNCHANGED <<cache, destroyed>>

\* Renderers leased on thread w
Leased(w) == held[w] \cup (IF lease[w] # NoCtx THEN {lease[w]} ELSE {})


\* ----------------------------------------------------------- service.rs
\* A request (NamedMdxBatchInput): mdx maps document names to content sizes,
\* components maps component names to code sizes (None and the empty map
\* behave alike).  Names are keys of a HashMap, so they are distinct; a request
\* with n documents names them 1..n.
Inputs ==
    UNION {[mdx : [1..n -> DocSizes], components : [1..m -> CodeSizes]] :
              <<n, m>> \in (0..(MaxBatchSize + 1)) \X (0..NumComponents)}

\* RenderService::validate_resource_limits: "ok" or the resource that is exceeded
ValidateNonStrict(inp) ==
    IF Cardinality(DOMAIN inp.mdx) >= MaxBatchSize THEN "batch"
    ELSE IF \E d \in DOMAIN inp.mdx : inp.mdx[d] >= MaxMdxContentSize THEN "document"
    ELSE IF \E n \in DOMAIN inp.components :
                inp.components[n] >= MaxComponentCodeSize THEN "component"
    ELSE "ok"
validate_resource_limits(inp) ==
    IF Cardinality(DOMAIN inp.mdx) > MaxBatchSize THEN "batch"
    ELSE IF \E d \in DOMAIN inp.mdx : inp.mdx[d] > MaxMdxContentSize THEN "document"
    ELSE IF \E n \in DOMAIN inp.components :
                inp.components[n] > MaxComponentCodeSize THEN "component"
    ELSE "ok"

\* input.mdx.is_empty()
NeverEmpty(inp) == FALSE
MdxIsEmpty(inp) == DOMAIN inp.mdx = {}

\* FileRenderOutcome::success / FileRenderOutcome::failure.  The fallback passed
\* to failure is the value of create_error_response (mdx.rs), an error page.
FileRenderOutcomeSuccess == [status |-> "Success", result |-> "rendered", error |-> "none"]
FileRenderOutcomeFailure == [status |-> "Failed", result |-> "fallback", error |-> "message"]

\* The locals files, errors, succeeded, failed of render_batch
EmptyAcc == [files |-> EmptyFn, errors |-> <<>>, succeeded |-> 0, failed |-> 0]

\* Ok arm of the loop body
RecordSuccess(a, name) ==
    [a EXCEPT !.succeeded = @ + 1,
              !.files = (name :> FileRenderOutcomeSuccess) @@ @]

\* Err arm of the loop body
RecordFailureUncounted(a, name) ==
    [a EXCEPT !.errors = Append(@, name),
              !.files = (name :> FileRenderOutcomeFailure) @@ @]
RecordFailure(a, name) ==
    [a EXCEPT !.failed = @ + 1,
              !.errors = Append(@, name),
              !.files = (name :> FileRenderOutcomeFailure) @@ @]

\* The documents the for loop still has to visit after document d ended with ok
AbortOnFailure(rest, d, ok) == IF ok THEN rest \ {d} ELSE {}
RemainingAfter(rest, d, ok) == rest \ {d}

\* What render_batch returns
NoResult ==
    [kind |-> "none", resource |-> "none", total |-> 0, succeeded |-> 0,
     failed |-> 0, errors |-> <<>>, files |-> EmptyFn]
ErrResult(kind, resource) == [NoResult EXCEPT !.kind = kind, !.resource = resource]
\* BatchRenderOutcome::empty
BatchRenderOutcomeEmpty == [NoResult EXCEPT !.kind = "Ok"]
\* BatchRenderOutcome::new
BatchRenderOutcomeNew(a) ==
    [kind |-> "Ok", resource |-> "none", total |-> a.succeeded + a.failed,
     succeeded |-> a.succeeded, failed |-> a.failed,
     errors |-> a.errors, files |-> a.files]

\* BatchRenderOutcome::is_all_success
is_all_success(o) == o.failed = 0

\* BatchRenderOutcome::is_complete_failure
IsCompleteFailureWithoutTotal(o) == o.succeeded = 0
is_complete_failure(o) == o.total > 0 /\ o.succeeded = 0

\* ------------------------------------------------------------ handlers.rs
\* handle_render_result: the status code of the response to what render_batch
\* returned (r.kind is "Ok" for an outcome, else the RenderBatchError variant)
handle_render_result(r) ==
    IF r.kind = "Ok"
    THEN IF is_all_success(r) THEN 200
         ELSE IF is_complete_failure(r) THEN 500
         ELSE 207
    ELSE IF r.kind = "Forbidden" THEN 403
    ELSE IF r.kind = "InvalidRequest" THEN 400
    ELSE 500

\* ----------------------------------------------------------------- mdx.rs
\* mdx_to_html_with_frontmatter on runtime state rt with the request's components.
\* stage says how far the document gets:
\*   "compile": front matter, markdown or TSX transform fails, or the component
\*              bootstrap cannot be built; the runtime is not entered;
\*   "script":  the render script runs and fails after registering reg;
\*   "ok":      the render script registers every component and returns a string.
Stages == {"compile", "script", "ok"}
mdx_to_html_with_frontmatter(rt, comps, stage, reg) ==
    IF stage = "compile"
    THEN [ok |-> FALSE, state |-> rt]
    ELSE LET r == with_runtime(rt, IF stage = "ok" THEN comps ELSE reg)
         IN [ok |-> stage = "ok" /\ r.ran, state |-> r.state]

\* ------------------------------------------------- mdx.rs: JSX protection
\* A text is a sequence of tokens:
\*   "text"   prose, or markup that none of the patterns below matches
\*   "self"   <Name attr={...} />   a match of SELF_CLOSING_JSX_PATTERN
\*   "open"   <Name attr={...}>     a match of OPENING_JSX_PATTERN only
\*   "tag"    <Name>                an opening tag without expression attribute
\*   "close"  </Name>
\*   "ph"     <!--JSX:i-->
\* A tag name is a sequence of pieces of text: CardHeader begins with Card.
JsxNames == {<<"Card">>, <<"Button">>, <<"Card", "Header">>}
Token(k, n) == [k |-> k, n |-> n, i |-> 0]
Placeholder(counter) == [k |-> "ph", n |-> <<>>, i |-> counter]
JsxTokens ==
    {Token("text", <<>>)} \cup
    {Token(k, n) : <<k, n>> \in {"self", "open", "tag", "close"} \X JsxNames}
Texts == UNION {[1..n -> JsxTokens] : n \in 0..MaxTextLen}

MinOf(S) == CHOOSE x \in S : \A y \in S : x <= y

\* s with the tokens from..to replaced by the text r
ReplaceRange(s, from, to, r) ==
    SubSeq(s, 1, from - 1) \o r \o SubSeq(s, to + 1, Len(s))

\* str::replace: every occurrence of the token t replaced by the text r
RECURSIVE ReplaceAll(_, _, _)
ReplaceAll(s, t, r) ==
    IF s = <<>> THEN <<>>
    ELSE (IF Head(s) = t THEN r ELSE <<Head(s)>>) \o ReplaceAll(Tail(s), t, r)

\* Phase 1 of protect_jsx_components: the matches of SELF_CLOSING_JSX_PATTERN
\* in the original text (matches: their positions, last one first), each
\* replaced in the working text out by the next placeholder, up to the limit.
RECURSIVE ProtectSelfClosing(_, _, _, _)
ProtectSelfClosing(out, placeholders, counter, matches) ==
    IF matches = <<>> \/ counter >= MAX_JSX_PLACEHOLDERS
    THEN [result |-> out, placeholders |-> placeholders, counter |-> counter]
    ELSE LET pos == Head(matches)
             jsx == <<out[pos]>>
         IN ProtectSelfClosing(ReplaceRange(out, pos, pos, <<Placeholder(counter)>>),
                               (counter :> jsx) @@ placeholders,
                               counter + 1, Tail(matches))

\* SELF_CLOSING_JSX_PATTERN.find_iter(content) reversed: the positions of the
\* matches among the first n tokens of s, last one first
RECURSIVE MatchesReversed(_, _)
MatchesReversed(s, n) ==
    IF n = 0 THEN <<>>
    ELSE (IF s[n].k = "self" THEN <<n>> ELSE <<>>) \o MatchesReversed(s, n - 1)

\* str::find of nested_open_pattern = "<tag_name" hits the token t: t is a tag
\* whose text begins with "<tag_name", whatever follows the name
NestedOpenPatternFound(t, tag_name) ==
    /\ t.k \in {"self", "open", "tag"}
    /\ Len(t.n) >= Len(tag_name)
    /\ SubSeq(t.n, 1, Len(tag_name)) = tag_name

\* find_matching_close_tag: from position pos on, an occurrence of "<tag_name"
\* raises nesting, one of "</tag_name>" lowers it; found when it reaches zero.
RECURSIVE find_matching_close_tag(_, _, _, _, _)
find_matching_close_tag(s, pos, tag_name, nesting, depth) ==
    LET opens == {i \in pos..Len(s) : NestedOpenPatternFound(s[i], tag_name)}
        closes == {i \in pos..Len(s) : s[i].k = "close" /\ s[i].n = tag_name}
    IN IF pos > Len(s) \/ (opens = {} /\ closes = {})
       THEN [found |-> FALSE, close_pos |-> 0, depth |-> depth]
       ELSE IF opens # {} /\ (closes = {} \/ MinOf(opens) < MinOf(closes))
       THEN LET deeper == nesting + 1
                seen == IF depth > deeper THEN depth ELSE deeper
            IN IF deeper > MAX_JSX_NESTING_DEPTH
               THEN [found |-> FALSE, close_pos |-> 0, depth |-> seen]
               ELSE find_matching_close_tag(s, MinOf(opens) + 1, tag_name, deeper, seen)
       ELSE IF nesting - 1 = 0
       THEN [found |-> TRUE, close_pos |-> MinOf(closes), depth |-> depth]
       ELSE find_matching_close_tag(s, MinOf(closes) + 1, tag_name, nesting - 1, depth)

\* protect_jsx_with_children: the loop, entered with iterations rounds done
RECURSIVE protect_jsx_with_children(_, _, _, _, _)
protect_jsx_with_children(s, placeholders, counter, depth, iterations) ==
    LET done == [result |-> s, placeholders |-> placeholders]
        opening == {i \in 1..Len(s) : s[i].k \in {"self", "open"}}
    IN IF iterations + 1 > MAX_JSX_PLACEHOLDERS \/ counter >= MAX_JSX_PLACEHOLDERS
       THEN done
       ELSE IF opening = {} THEN done
       ELSE LET open_pos == MinOf(opening)
                m == find_matching_close_tag(s, open_pos + 1, s[open_pos].n, 1, depth)
            IN IF ~m.found \/ m.depth > MAX_JSX_NESTING_DEPTH
               THEN done
               ELSE LET full_jsx == SubSeq(s, open_pos, m.close_pos)
                    IN protect_jsx_with_children(
                           ReplaceRange(s, open_pos, m.close_pos, <<Placeholder(counter)>>),
                           (counter :> full_jsx) @@ placeholders,
                           counter + 1, m.depth, iterations + 1)

\* protect_jsx_components
protect_jsx_components(s) ==
    IF s = <<>>
    THEN [result |-> <<>>, placeholders |-> EmptyFn]
    ELSE LET p == ProtectSelfClosing(s, EmptyFn, 0, MatchesReversed(s, Len(s)))
         IN protect_jsx_with_children(p.result, p.placeholders, p.counter, 0, 0)

\* The keys of the placeholder map, sorted by their number
RECURSIVE SortedKeys(_)
SortedKeys(S) ==
    IF S = {} THEN <<>> ELSE <<MinOf(S)>> \o SortedKeys(S \ {MinOf(S)})

\* The for loop of restore_jsx_components over the sorted placeholders
RECURSIVE RestoreLoop(_, _, _)
RestoreLoop(out, placeholders, keys) ==
    IF keys = <<>> THEN out
    ELSE LET placeholder == Placeholder(Head(keys))
             jsx == placeholders[Head(keys)]
         IN RestoreLoop(IF \E i \in 1..Len(out) : out[i] = placeholder
                        THEN ReplaceAll(out, placeholder, jsx)
                        ELSE out,
                        placeholders, Tail(keys))

\* restore_jsx_components
restore_jsx_components(s, placeholders) ==
    IF DOMAIN placeholders = {} THEN s
    ELSE RestoreLoop(s, placeholders, SortedKeys(DOMAIN placeholders))

\* ------------------------------------------- transform.rs: export default
\* Component code is a sequence of words separated by single spaces: the
\* keywords, the identifiers Component and Button, "(" for text that starts
\* with a parenthesis and "{" for any other text that starts with a character
\* no identifier contains.
CodeWords ==
    {"export", "default", "async", "function", "class", "(", "Component", "Button", "{"}
Codes == UNION {[1..n -> CodeWords] : n \in 0..MaxCodeLen}

\* s.starts_with(prefix)
StartsWith(s, prefix) ==
    Len(s) >= Len(prefix) /\ SubSeq(s, 1, Len(prefix)) = prefix

\* s.strip_prefix("word ") succeeds: the word and the space after it lead s;
\* s is trimmed, so something follows the space.
StartsWithWordAndSpace(s, word) == Len(s) >= 2 /\ s[1] = word

\* s.split(|c| !c.is_alphanumeric() && c != '_' && c != '$').next(): the
\* leading run of identifier characters of s ("" when there is none)
LeadingIdentifier(s) ==
    IF s = <<>> \/ s[1] \in {"(", "{"} THEN "" ELSE s[1]

\* The error MdxError::InvalidExportDefault(label)
InvalidExportDefault(label) == [kind |-> "InvalidExportDefault", label |-> label]
ValidateOk == [kind |-> "Ok", label |-> <<>>]

\* validate_export_default(rest), rest trimmed
validate_export_default(rest) ==
    IF StartsWith(rest, <<"(">>)
    THEN InvalidExportDefault(<<"arrow function">>)
    ELSE IF StartsWith(rest, <<"async", "(">>)
    THEN InvalidExportDefault(<<"async arrow function">>)
    ELSE IF StartsWith(rest, <<"async", "function">>)
    THEN InvalidExportDefault(<<"async function">>)
    ELSE IF StartsWithWordAndSpace(rest, "class")
    THEN InvalidExportDefault(<<"class", LeadingIdentifier(Tail(rest))>>)
    ELSE IF StartsWithWordAndSpace(rest, "function")
    THEN IF LeadingIdentifier(Tail(rest)) = "Component"
         THEN ValidateOk
         ELSE InvalidExportDefault(<<"function", LeadingIdentifier(Tail(rest))>>)
    ELSE IF LeadingIdentifier(rest) # ""
    THEN InvalidExportDefault(<<LeadingIdentifier(rest)>>)
    ELSE InvalidExportDefault(<<"expression">>)

\* strip_export_statements: the error, or the code without the leading export
strip_export_statements(s) ==
    IF Len(s) >= 3 /\ StartsWith(s, <<"export", "default">>)
    THEN LET rest == SubSeq(s, 3, Len(s))
             v == validate_export_default(rest)
         IN IF v.kind = "Ok"
            THEN [kind |-> "Ok", label |-> <<>>, code |-> rest]
            ELSE [kind |-> v.kind, label |-> v.label, code |-> <<>>]
    ELSE IF StartsWithWordAndSpace(s, "export")
    THEN [kind |-> "Ok", label |-> <<>>, code |-> Tail(s)]
    ELSE [kind |-> "Ok", label |-> <<>>, code |-> s]

\* What transform_component_code returns
NotCompiled == [kind |-> "none", label |-> <<>>]

\* transform_component_code.  parses says whether the TSX parser and the
\* transformer (transform_component_function or transform_tsx_to_js) accept
\* the code that is left.
transform_component_code(s, parses) ==
    LET stripped == strip_export_statements(s)
    IN IF stripped.kind # "Ok"
       THEN [kind |-> stripped.kind, label |-> stripped.label]
       ELSE IF parses THEN [kind |-> "Ok", label |-> <<>>]
       ELSE [kind |-> "TsxParse", label |-> <<>>]

\* ------------------------------------- models.rs, service.rs: configuration
\* ResourceLimits::validate: the recommended maxima
MAX_RECOMMENDED_BATCH_SIZE == 100000
MAX_RECOMMENDED_MDX_CONTENT_SIZE == 104857600
\* RenderServiceConfig::validate: the largest max_cached_renderers it admits
MAX_CACHED_RENDERERS == 1000

\* Values of a setting: zero, the smallest positive one, and the values at and
\* just above a maximum
SettingValues(maximum) == {0, 1, maximum, maximum + 1}

\* The configurations handed to RenderService::new
Configs ==
    [static_dir : {"missing", "file", "dir"},
     max_cached_renderers : SettingValues(MAX_CACHED_RENDERERS),
     max_batch_size : SettingValues(MAX_RECOMMENDED_BATCH_SIZE),
     max_mdx_content_size : SettingValues(MAX_RECOMMENDED_MDX_CONTENT_SIZE),
     max_component_code_size : {0, 1, MAX_RECOMMENDED_MDX_CONTENT_SIZE + 1}]

\* The configuration of the service whose render_batch the model runs
ServiceConfig(max_cached) ==
    [static_dir |-> "dir",
     max_cached_renderers |-> max_cached,
     max_batch_size |-> MaxBatchSize,
     max_mdx_content_size |-> MaxMdxContentSize,
     max_component_code_size |-> MaxComponentCodeSize]

\* ResourceLimits::validate: "ok" or the error
ResourceLimitsValidateAtCeiling(c) ==
    IF c.max_batch_size = 0 THEN "max_batch_size zero"
    ELSE IF c.max_mdx_content_size = 0 THEN "max_mdx_content_size zero"
    ELSE IF c.max_component_code_size = 0 THEN "max_component_code_size zero"
    ELSE IF c.max_batch_size >= MAX_RECOMMENDED_BATCH_SIZE
         THEN "max_batch_size exceeds"
    ELSE IF c.max_mdx_content_size >= MAX_RECOMMENDED_MDX_CONTENT_SIZE
         THEN "max_mdx_content_size exceeds"
    ELSE "ok"
ResourceLimitsValidate(c) ==
    IF c.max_batch_size = 0 THEN "max_batch_size zero"
    ELSE IF c.max_mdx_content_size = 0 THEN "max_mdx_content_size zero"
    ELSE IF c.max_component_code_size = 0 THEN "max_component_code_size zero"
    ELSE IF c.max_batch_size > MAX_RECOMMENDED_BATCH_SIZE
         THEN "max_batch_size exceeds"
    ELSE IF c.max_mdx_content_size > MAX_RECOMMENDED_MDX_CONTENT_SIZE
         THEN "max_mdx_content_size exceeds"
    ELSE "ok"

\* RenderServiceConfig::validate: "ok" or the error
RenderServiceConfigValidate(c) ==
    IF c.static_dir = "missing" THEN "static_dir does not exist"
    ELSE IF c.static_dir # "dir" THEN "static_dir is not a directory"
    ELSE IF c.max_cached_renderers = 0 THEN "max_cached_renderers zero"
    ELSE IF c.max_cached_renderers > MAX_CACHED_RENDERERS
         THEN "max_cached_renderers exceeds"
    ELSE ResourceLimitsValidate(c)


\* ------------------------------------------------- mdx.rs: schema output
\* A string is a sequence of pieces of text; the first piece of a name is its
\* first character.
Uppercase == {"B", "C", "F", "P"}
Fragment == <<"F", "ragment">>
TagNames == {<<"B", "utton">>, <<"C", "ard">>, <<"d", "iv">>}
RootTagNames == {Fragment, <<"C", "ard">>, <<"d", "iv">>}
TypeKey == <<"type">>

\* serde_json::Value: a string, or the object the engine emits for an element
\* with its members "type", "attributes" and "children"
JsonString(text) ==
    [k |-> "string", type |-> <<>>, attributes |-> EmptyFn, children |-> <<>>,
     text |-> text]
Element(type, attributes, children) ==
    [k |-> "object", type |-> type, attributes |-> attributes,
     children |-> children, text |-> <<>>]
\* the structural render failed / returned text that is not JSON
NoTree == [JsonString(<<>>) EXCEPT !.k = "none"]
NotJson == [JsonString(<<>>) EXCEPT !.k = "invalid"]

\* the "attributes" member: no attribute, or one attribute
AttributeObjects ==
    {EmptyFn,
     [x \in {TypeKey} |-> <<"P", "rimary">>],
     [x \in {<<"v-", "on", ":", "click">>} |-> <<"s", "ubmit">>],
     [x \in {<<"x-", "show">>} |-> <<"P", "rimary">>]}

Leaves ==
    {JsonString(<<"G", "o">>)} \cup
    {Element(t, a, <<>>) : t \in TagNames, a \in AttributeObjects}
ChildLists == UNION {[1..n -> Leaves] : n \in 0..MaxChildren}
Trees ==
    {Element(t, a, c) : t \in RootTagNames, a \in AttributeObjects, c \in ChildLists}

\* settings.directives: None, or a list of prefixes
DirectiveLists == {<<>>, << <<"v-">> >>, << <<"x-">>, <<"v-">> >>}

\* Every string of the model in ascending order (Ord for String: byte order)
Ascending ==
    << <<"\"", "P", "rimary", "\"">>, <<"\"", "s", "ubmit", "\"">>,
       <<"B", "utton">>, <<"C", "ard">>, <<"F", "ragment">>, <<"P", "rimary">>,
       <<"d", "iv">>, <<"s", "ubmit">>, <<"type">>,
       <<"v-", "*">>, <<"v-", "on", ":", "*">>, <<"v-", "on", ":", "click">>,
       <<"x-", "*">>, <<"x-", "show">> >>

\* set.into_iter().collect() followed by sort()
SortedVec(S) == SelectSeq(Ascending, LAMBDA x : x \in S)

\* serde_json::to_string and serde_json::from_str of a string value
ToJsonString(v) == <<"\"">> \o v \o <<"\"">>
FromJsonString(t) == SubSeq(t, 2, Len(t) - 1)

\* The test of traverse_json_tree on the "type" member: not empty, first
\* character uppercase, not "Fragment"
IsComponentType(tag) == tag # <<>> /\ Head(tag) \in Uppercase /\ tag # Fragment

\* What traverse_json_tree has collected in its four sets
Found(components, keys, patterns, values) ==
    [components |-> components, keys |-> keys, patterns |-> patterns,
     values |-> values]
MergeFound(S) ==
    Found(UNION {f.components : f \in S}, UNION {f.keys : f \in S},
          UNION {f.patterns : f \in S}, UNION {f.values : f \in S})

\* index of the first prefix the key starts with (0: none)
FirstPrefix(key, prefixes) ==
    LET hits == {i \in 1..Len(prefixes) : StartsWith(key, prefixes[i])}
    IN IF hits = {} THEN 0 ELSE MinOf(hits)

\* "v-on:click" -> "v-on:*", and prefix + "*" for a key without a colon
DirectivePattern(key, prefix) ==
    LET colons == {i \in 1..Len(key) : key[i] = ":"}
    IN IF colons # {}
       THEN SubSeq(key, 1, MinOf(colons) - 1) \o <<":", "*">>
       ELSE prefix \o <<"*">>

\* The loop of traverse_json_tree over the "attributes" member
AttributeDirectives(attrs, prefixes) ==
    LET hit == {key \in DOMAIN attrs : FirstPrefix(key, prefixes) # 0}
    IN Found({},
             hit,
             {DirectivePattern(key, prefixes[FirstPrefix(key, prefixes)]) : key \in hit},
             {ToJsonString(attrs[key]) : key \in hit})

\* traverse_json_tree.  An object is tested for its "type" member and its
\* "attributes" member, then every member value is traversed: the "children"
\* array item by item, and the "attributes" object as an object of its own,
\* so an attribute named "type" is tested like the "type" member of an element.
RECURSIVE traverse_json_tree(_, _)
traverse_json_tree(node, prefixes) ==
    IF node.k # "object" THEN Found({}, {}, {}, {})
    ELSE LET own == IF IsComponentType(node.type) THEN {node.type} ELSE {}
             attrs == node.attributes
             inAttributes ==
                 IF TypeKey \in DOMAIN attrs /\ IsComponentType(attrs[TypeKey])
                 THEN {attrs[TypeKey]} ELSE {}
         IN MergeFound(
                {Found(own \cup inAttributes, {}, {}, {}),
                 AttributeDirectives(attrs, prefixes)} \cup
                {traverse_json_tree(node.children[i], prefixes) :
                     i \in 1..Len(node.children)})

\* SchemaResult
NoSchema == [components |-> <<>>, keys |-> <<>>, patterns |-> <<>>, values |-> <<>>]

\* What render_with_engine_pipeline returns: Ok with the output of the format,
\* or Err of the stage that failed
Rendered(kind, stage, tree, schema) ==
    [kind |-> kind, stage |-> stage, tree |-> tree, schema |-> schema]
NotRendered == Rendered("none", "none", NoTree, NoSchema)
RenderedErr(stage) == Rendered("Err", stage, NoTree, NoSchema)

\* extract_schema_from_json
extract_schema_from_json(json_tree, directive_prefixes) ==
    IF json_tree.k = "invalid" THEN RenderedErr("extract")
    ELSE LET found == traverse_json_tree(json_tree, directive_prefixes)
             sorted_values == SortedVec(found.values)
         IN Rendered("Ok", "none", NoTree,
                     [components |-> SortedVec(found.components),
                      keys |-> SortedVec(found.keys),
                      patterns |-> SortedVec(found.patterns),
                      values |-> [i \in 1..Len(sorted_values) |->
                                      FromJsonString(sorted_values[i])]])

\* --------------------------------------- mdx.rs: render_with_engine_pipeline
OutputFormats == {"Html", "Javascript", "Schema", "Json"}

\* What the stages outside this crate make of a document's markup:
\* transform_tsx_to_js_with_config succeeds, the string render succeeds, the
\* structural render returns a tree (NoTree: it fails), and
\* transform_tsx_to_js_for_output succeeds on the rendered string
Pages ==
    [compiles : BOOLEAN, markup : BOOLEAN, tree : Trees \cup {NoTree, NotJson},
     reemits : BOOLEAN]

\* render_template_to_schema: the structural render of the renderer
render_template_to_schema(p) ==
    IF p.tree = NoTree THEN RenderedErr("structural")
    ELSE Rendered("Ok", "none", p.tree, NoSchema)

\* render_template: the string render of the renderer
render_template(p) ==
    IF p.markup THEN Rendered("Ok", "none", NoTree, NoSchema)
    ELSE RenderedErr("string")

\* render_with_engine_pipeline: the result, and the renders it ran in order
Pipeline(out, calls) == [result |-> out, renders |-> calls]
render_with_engine_pipeline(s, p) ==
    IF ~p.compiles THEN Pipeline(RenderedErr("transform"), <<>>)
    ELSE IF s.output = "Schema"
    THEN LET json_tree == render_template_to_schema(p)
         IN IF json_tree.kind = "Err"
            THEN Pipeline(json_tree, <<"structural">>)
            ELSE Pipeline(extract_schema_from_json(json_tree.tree, s.directives),
                          <<"structural">>)
    ELSE LET template_output == render_template(p)
         IN IF template_output.kind = "Err"
            THEN Pipeline(template_output, <<"string">>)
            ELSE IF s.output = "Html" THEN Pipeline(template_output, <<"string">>)
            ELSE IF s.output = "Javascript"
            THEN Pipeline(IF p.reemits THEN template_output
                          ELSE RenderedErr("reemit"), <<"string">>)
            ELSE Pipeline(render_template_to_schema(p), <<"string", "structural">>)

\* ------------------------------ python-bindings, js-bindings: Renderer::render
Bindings == {"python", "js"}

\* RenderBatchError
BatchErrors == {"Forbidden", "InvalidRequest", "Internal"}

\* What render_batch answers the binding: an outcome with its counts, or an
\* error with its message
Answer(kind, succeeded, failed, message) ==
    [kind |-> kind, succeeded |-> succeeded, failed |-> failed, message |-> message]
Answers ==
    {Answer("Ok", n, m, "none") :
         n \in 0..MaxBatchSize, m \in 0..MaxBatchSize} \cup
    {Answer(e, 0, 0, m) :
         e \in BatchErrors, m \in {"batch", "document", "component", "renderer"}}

\* The type of the exception (python) and the status of the Error (js) that the
\* match on Err(RenderBatchError) constructs
ErrorType(binding, e) ==
    IF binding = "python"
    THEN IF e = "Forbidden" THEN "ValueError"
         ELSE IF e = "InvalidRequest" THEN "ValueError"
         ELSE "RuntimeError"
    ELSE IF e = "Forbidden" THEN "InvalidArg"
         ELSE IF e = "InvalidRequest" THEN "InvalidArg"
         ELSE "GenericFailure"

\* the text put in front of the error's message
ErrorPrefix(e) ==
    IF e = "Forbidden" THEN "Forbidden: "
    ELSE IF e = "InvalidRequest" THEN "Invalid request: "
    ELSE "Internal error: "

\* the input that does not parse as a NamedMdxBatchInput
ParseErrorType(binding) == IF binding = "python" THEN "ValueError" ELSE "InvalidArg"

Raised(kind, type, text, answer) ==
    [kind |-> kind, type |-> type, text |-> text, answer |-> answer]
NotCalled == Raised("none", "none", "none", Answer("none", 0, 0, "none"))

\* Renderer::render of a binding: parse the input, call render_batch under the
\* service lock, raise for an error, else serialize the outcome
BindingRenderResult(c) ==
    IF ~c.parses
    THEN Raised("Err", ParseErrorType(c.binding), "Failed to parse input",
                Answer("none", 0, 0, "none"))
    ELSE IF c.answer.kind = "Ok"
    THEN Raised("Ok", "none", "none", c.answer)
    ELSE Raised("Err", ErrorType(c.binding, c.answer.kind),
                ErrorPrefix(c.answer.kind), Answer("none", 0, 0, c.answer.message))

\* ------------------------------------------------------------------ Init
\* No renderer exists and no call is running.
NothingRunning ==
    /\ alive = [w \in Workers |-> TRUE]
    /\ cache = [w \in Workers |-> <<>>]
    /\ held = [w \in Workers |-> {}]
    /\ nextId = 0
    /\ creator = [c \in CtxIds |-> 0]
    /\ destroyed = {}
    /\ tornDown = [w \in Workers |-> <<>>]
    /\ js = [c \in CtxIds |-> FreshRuntime]
    /\ pc = [w \in Workers |-> "idle"]
    /\ input = [w \in Workers |-> [mdx |-> EmptyFn, components |-> EmptyFn]]
    /\ lease = [w \in Workers |-> NoCtx]
    /\ todo = [w \in Workers |-> {}]
    /\ acc = [w \in Workers |-> EmptyAcc]
    /\ result = [w \in Workers |-> NoResult]
    /\ checkouts = [w \in Workers |-> 0]
    /\ usedCtx = [w \in Workers |-> EmptyFn]

\* No text is being processed
NoText ==
    /\ content = <<>>
    /\ guarded = [result |-> <<>>, placeholders |-> EmptyFn]
    /\ restored = <<>>
    /\ jsxStage = "idle"

\* No component code is being transformed
NoCode ==
    /\ code = <<>>
    /\ compiled = NotCompiled

\* No with_runtime call is in progress
NoCall ==
    /\ stack = <<>>
    /\ returned = NoReturn

\* No document is in the pipeline
NoPage ==
    /\ settings = [output |-> "Html", directives |-> <<>>]
    /\ page = [compiles |-> FALSE, markup |-> FALSE, tree |-> NoTree,
               reemits |-> FALSE]
    /\ renders = <<>>
    /\ rendered = NotRendered

\* No pool.warm call has been observed
NotWarmed == [warm_count |-> 0, created |-> 0]
NoWarm == warmed = NotWarmed

\* One pool only: the pool of capacity cap
NoPools ==
    /\ pools = EmptyFn
    /\ madeBy = [c \in CtxIds |-> 0]
    /\ leasePool = [c \in CtxIds |-> 0]

\* No binding is in use
NoBinding ==
    /\ call = [binding |-> "none", parses |-> FALSE,
               answer |-> Answer("none", 0, 0, "none")]
    /\ raised = NotCalled

\* ------------------------------------------- renderer/scripts.rs: bootstrap
\* JavaScript values, as far as the registration script tells them apart: the
\* kind of the value and the kind of its property "default".
JsValue(t, default) == [t |-> t, default |-> default]
JsUndefined == JsValue("undefined", "undefined")
JsNull == JsValue("null", "undefined")
JsFunction == JsValue("function", "undefined")
\* { default: ... }, and {} when there is no such property
JsObject(default) == JsValue("object", default)

\* ToBoolean(v)
Truthy(v) == v.t \in {"function", "object"}
\* v.default, for a v that is neither null nor undefined
DefaultOf(v) == IF v.default = "function" THEN JsFunction ELSE JsUndefined
\* a || b
JsOr(a, b) == IF Truthy(a) THEN a ELSE b

\* The names components are registered under
ComponentNames == {"Badge", "Component"}

\* What the component's code leaves behind in the scope of the registration
\* function once it has run:
\*   Component       a binding named Component declared by the code, or none
\*   default         the property default it set on the exports object, or none
\*   module_exports  module.exports is still that object ("kept"), or what the
\*                   code assigned to it
ComponentCodes ==
    [Component : {"undefined", "function"},
     default : {"undefined", "function"},
     module_exports : {"kept", "function", "null"}]

\* const module = { exports: {} }; const exports = module.exports; and then
\* the component's code
ExportsAfter(c) == JsObject(c.default)
ModuleExportsAfter(c) ==
    IF c.module_exports = "kept" THEN ExportsAfter(c)
    ELSE IF c.module_exports = "function" THEN JsFunction
    ELSE JsNull

\* What the identifier Component evaluates to inside the registration
\* function: the code's own binding, else the global of that name
ComponentInScope(c, globals) ==
    IF c.Component # "undefined" THEN JsFunction ELSE globals["Component"]

\* resolve_component_code: the value of resolved when the script has run
resolve_component_code(c, globals) ==
    LET fromBinding ==
            IF ComponentInScope(c, globals).t # "undefined"
            THEN ComponentInScope(c, globals) ELSE JsNull
        fromModule ==
            IF ~Truthy(fromBinding) /\ Truthy(ModuleExportsAfter(c))
            THEN JsOr(DefaultOf(ModuleExportsAfter(c)), ModuleExportsAfter(c))
            ELSE fromBinding
    IN IF ~Truthy(fromModule) /\ Truthy(ExportsAfter(c))
       THEN JsOr(DefaultOf(ExportsAfter(c)), ExportsAfter(c))
       ELSE fromModule

\* new Error('Component <name> did not export a value')
DidNotExportAValue(name) == <<"Component", name, "did not export a value">>
NotThrown == <<>>

\* The script of build_single_component_registration, run for the component
\* name with code c: what it throws and what it leaves in globalThis
build_single_component_registration(name, c, globals, names) ==
    LET resolved == resolve_component_code(c, globals)
    IN IF ~Truthy(resolved)
       THEN [thrown |-> DidNotExportAValue(name), globals |-> globals,
             names |-> names]
       ELSE [thrown |-> NotThrown,
             globals |-> [globals EXCEPT ![name] = resolved],
             names |-> Append(names, name)]

\* The registration that ran last
Registration(name, c) == [name |-> name, code |-> c]
NoRegistration ==
    Registration("none", [Component |-> "undefined", default |-> "undefined",
                          module_exports |-> "kept"])

\* No bootstrap script runs
NoBootstrap ==
    /\ registering = EmptyFn
    /\ jsGlobals = EmptyFn
    /\ registeredNames = <<>>
    /\ thrown = NotThrown
    /\ registered = NoRegistration

\* ----------------------------------- transform.rs: generated code clean-up
\* A component source is a sequence of statements, each a sequence of words;
\* "<jsx>" stands for a JSX element.  Codegen prints one statement per line
\* and a JSX element as an annotated call of h.
SourceStatements ==
    {<<"import", "Button">>,
     <<"export", "default", "function", "Component">>,
     <<"export", "default", "class", "Component">>,
     <<"export", "default", "Button">>,
     <<"export", "{", "Button">>,
     <<"export", "function", "Button">>,
     <<"export", "class", "Button">>,
     <<"export", "const", "Button", "<jsx>">>,
     <<"function", "Component">>,
     <<"class", "Button">>,
     <<"const", "Button", "<jsx>">>,
     <<"Button">>}
Sources == UNION {[1..n -> SourceStatements] : n \in 1..MaxStatements}

PureAnnotation == "/* @__PURE__ */"
Codegen(statements) ==
    [i \in DOMAIN statements |->
        ReplaceAll(statements[i], "<jsx>", <<PureAnnotation, "h">>)]

\* wrap_in_component, parsed and printed: the content ends up inside the
\* children of the fragment that View returns
WrappedView ==
    <<<<"function", "View", "{">>, <<"return", "<jsx>">>, <<"}">>>>

\* str::replace(from, to) on a line of words; from ends with a space, so a
\* word follows each occurrence
RECURSIVE ReplaceWords(_, _, _)
ReplaceWords(s, from, to) ==
    IF s = <<>> THEN <<>>
    ELSE IF Len(s) > Len(from) /\ SubSeq(s, 1, Len(from)) = from
    THEN to \o ReplaceWords(SubSeq(s, Len(from) + 1, Len(s)), from, to)
    ELSE <<Head(s)>> \o ReplaceWords(Tail(s), from, to)

\* trimmed.contains("word "): the word occurs and text follows it
ContainsWordAndSpace(s, word) == \E i \in 1..(Len(s) - 1) : s[i] = word

\* is_import_or_pure_export(trimmed)
is_import_or_pure_export(trimmed) ==
    IF StartsWithWordAndSpace(trimmed, "import") THEN TRUE
    ELSE IF (Len(trimmed) >= 3 /\ StartsWith(trimmed, <<"export", "default">>))
            \/ StartsWith(trimmed, <<"export", "{">>)
    THEN TRUE
    ELSE IF StartsWithWordAndSpace(trimmed, "export")
    THEN ~ContainsWordAndSpace(trimmed, "function")
         /\ ~ContainsWordAndSpace(trimmed, "class")
    ELSE FALSE

\* cleanup_generated_code, on the lines of the generated code
cleanup_generated_code(lines) ==
    LET unannotated == [i \in DOMAIN lines |-> ReplaceAll(lines[i], PureAnnotation, <<>>)]
        functions == [i \in DOMAIN lines |->
            ReplaceWords(unannotated[i], <<"export", "default", "function">>,
                         <<"function">>)]
        classes == [i \in DOMAIN lines |->
            ReplaceWords(functions[i], <<"export", "default", "class">>,
                         <<"class">>)]
    IN SelectSeq(classes, LAMBDA line : ~is_import_or_pure_export(line))

\* The test of transform_component_code for code that is a function
\* definition already, on the first statement left after stripping
IsFunctionDefinition(statement) ==
    statement # <<>> /\ statement[1] \in {"function", "const", "class"}

\* What the compiler returned: the lines of the script text, or the error
Emitted(kind, lines) == [kind |-> kind, lines |-> lines]
NotEmitted == Emitted("none", <<>>)

\* transform_component_code followed to the script text it returns.  parses:
\* the parser and the transformer accept what is left after stripping.
TransformedScript(statements, parses) ==
    LET stripped == strip_export_statements(Head(statements))
        left == <<stripped.code>> \o Tail(statements)
    IN IF stripped.kind # "Ok" THEN Emitted(stripped.kind, <<>>)
       ELSE IF ~parses THEN Emitted("TsxParse", <<>>)
       ELSE IF IsFunctionDefinition(stripped.code)
       THEN Emitted("Ok", cleanup_generated_code(Codegen(left)))   \* transform_component_function
       ELSE Emitted("Ok", cleanup_generated_code(Codegen(WrappedView))) \* transform_tsx_to_js

\* No component source is being compiled
NoSource ==
    /\ source = <<>>
    /\ emitted = NotEmitted

\* ------------------------------------- mdx.rs: the JSX guard, step by step
\* protect_jsx_with_children and find_matching_close_tag, one loop iteration
\* at a time.  Positions are token indexes of the working text.
\* The texts use two tag names, one beginning with the other.
ScanNames == {<<"Card">>, <<"Card", "Header">>}
ScanTokens == {t \in JsxTokens : t.k = "text" \/ t.n \in ScanNames}
ScanTexts == UNION {[1..n -> ScanTokens] : n \in 0..MaxScanLen}

\* The locals of protect_jsx_components and protect_jsx_with_children; pc is
\*   "input"     before phase 1
\*   "top"       at the top of the loop
\*   "scanning"  inside the call of find_matching_close_tag
\*   "done"      protect_jsx_components has returned
LoopIdle ==
    [pc |-> "idle", content |-> <<>>, placeholders |-> EmptyFn, counter |-> 0,
     depth |-> 0, iterations |-> 0, open_pos |-> 0]

\* The arguments and locals of find_matching_close_tag; state is "running"
\* inside its while loop and "returned" with its result
ScanIdle ==
    [state |-> "idle", start |-> 0, tag_name |-> <<>>, nesting |-> 0, pos |-> 0,
     found |-> FALSE, close_pos |-> 0]

\* pos += offset + pattern.len(): the position after a match at index i
ScanStaysAtMatch(i) == i
ScanPastMatch(i) == i + 1

\* return None / return Some(close_pos)
ScanReturned(sc, found, close_pos) ==
    [sc EXCEPT !.state = "returned", !.found = found, !.close_pos = close_pos]

\* One pass through the body of the while loop of find_matching_close_tag, or
\* its exit: the scan sc over the text s, with the depth seen so far
ScanBody(sc, s, depth) ==
    LET opens == {i \in sc.pos..Len(s) : NestedOpenPatternFound(s[i], sc.tag_name)}
        closes == {i \in sc.pos..Len(s) : s[i].k = "close" /\ s[i].n = sc.tag_name}
        deeper == sc.nesting + 1
    IN IF ~(sc.nesting > 0 /\ sc.pos <= Len(s))
       THEN [scan |-> ScanReturned(sc, FALSE, 0), depth |-> depth]
       ELSE IF opens = {} /\ closes = {}
       THEN [scan |-> ScanReturned(sc, FALSE, 0), depth |-> depth]
       ELSE IF opens # {} /\ (closes = {} \/ MinOf(opens) < MinOf(closes))
       THEN LET moved == [sc EXCEPT !.nesting = deeper,
                                    !.pos = ScanPastMatch(MinOf(opens))]
            IN [scan |-> IF deeper > MAX_JSX_NESTING_DEPTH
                         THEN ScanReturned(moved, FALSE, 0) ELSE moved,
                depth |-> IF depth > deeper THEN depth ELSE deeper]
       ELSE IF sc.nesting - 1 = 0
       THEN [scan |-> ScanReturned([sc EXCEPT !.nesting = 0], TRUE, MinOf(closes)),
             depth |-> depth]
       ELSE [scan |-> [sc EXCEPT !.nesting = sc.nesting - 1,
                                 !.pos = ScanPastMatch(MinOf(closes))],
             depth |-> depth]

\* The guard runs on no text
NoScan ==
    /\ loop = LoopIdle
    /\ scan = ScanIdle

\* Nothing of the script composer, the compiler's clean-up or the guard's loops
NoScripts ==
    /\ NoBootstrap
    /\ NoSource
    /\ NoScan

\* A service has been built.  RenderServiceConfig::validate admits
\* 1 <= max_cached_renderers <= 1000; the model takes the small ones.
Init ==
    /\ cap \in 1..MaxCached
    /\ NothingRunning
    /\ config = ServiceConfig(cap)
    /\ service = "built"
    /\ NoText
    /\ NoCode
    /\ NoCall
    /\ NoPage
    /\ NoWarm
    /\ NoPools
    /\ NoBinding
    /\ NoScripts

\* Before RenderService::new: there is a configuration and no pool
NoPool == 0
InitConfig ==
    /\ cap = NoPool
    /\ NothingRunning
    /\ config \in Configs
    /\ service = "none"
    /\ NoText
    /\ NoCode
    /\ NoCall
    /\ NoPage
    /\ NoWarm
    /\ NoPools
    /\ NoBinding
    /\ NoScripts

\* --------------------------------------------------------- pool actions
\* let lease = pool.checkout(RendererProfile::Engine)?  on thread w
Checkout(w) ==
    /\ alive[w] /\ pc[w] = "idle"
    /\ \E c \in CtxIds :
          /\ CheckoutOk(w, c)
          /\ held' = [held EXCEPT ![w] = @ \cup {c}]
    /\ UNCHANGED <<cap, alive, destroyed, tornDown, js>>
    /\ UNCHANGED batchVars
    /\ UNCHANGED configVars
    /\ UNCHANGED mdxVars
    /\ UNCHANGED <<warmed, manyPoolsVars, bindingVars, scriptVars>>

\* drop(lease) on thread w, for a lease taken by Checkout
DropLease(w, c) ==
    /\ alive[w] /\ pc[w] = "idle"
    /\ c \in held[w]
    /\ RendererLeaseDrop(w, c)
    /\ held' = [held EXCEPT ![w] = @ \ {c}]
    /\ UNCHANGED <<cap, alive, nextId, creator, tornDown, js>>
    /\ UNCHANGED batchVars
    /\ UNCHANGED configVars
    /\ UNCHANGED mdxVars
    /\ UNCHANGED <<warmed, manyPoolsVars, bindingVars, scriptVars>>

RECURSIVE PushAll(_, _, _, _)
\* the return_renderer calls of the loop of warm, for the renderers rs
PushAll(q, ev, rs, max_size) ==
    IF rs = <<>> THEN [queue |-> q, evicted |-> ev]
    ELSE LET p == push_with_limit(q, Head(rs), max_size)
         IN PushAll(p.queue, ev \cup p.evicted, Tail(rs), max_size)

\* The loop of RendererPool::warm(warm_count) on thread w for a pool of
\* capacity max_cached_per_key: min(warm_count, capacity) rounds of
\* create_renderer + return_renderer; k of the creations succeed.
WarmRoundsIgnoringCapacity(w, warm_count, max_cached_per_key) ==
    \E k \in 0..warm_count :
        /\ nextId + k <= MaxCtx
        /\ LET rs == [i \in 1..k |-> nextId + i]
               p == PushAll(cache[CacheOf(w)], {}, rs, max_cached_per_key)
           IN /\ cache' = [cache EXCEPT ![CacheOf(w)] = p.queue]
              /\ destroyed' = destroyed \cup p.evicted
              /\ creator' = [c \in CtxIds |->
                               IF c \in Range(rs) THEN w ELSE creator[c]]
        /\ nextId' = nextId + k
WarmRounds(w, warm_count, max_cached_per_key) ==
    \E k \in 0..(IF warm_count < max_cached_per_key
                 THEN warm_count ELSE max_cached_per_key) :
        /\ nextId + k <= MaxCtx
        /\ LET rs == [i \in 1..k |-> nextId + i]
               p == PushAll(cache[CacheOf(w)], {}, rs, max_cached_per_key)
           IN /\ cache' = [cache EXCEPT ![CacheOf(w)] = p.queue]
              /\ destroyed' = destroyed \cup p.evicted
              /\ creator' = [c \in CtxIds |->
                               IF c \in Range(rs) THEN w ELSE creator[c]]
        /\ nextId' = nextId + k

\* RendererPool::warm(warm_count) on thread w
WarmCall(w, warm_count) ==
    /\ alive[w] /\ pc[w] = "idle"
    /\ WarmRounds(w, warm_count, cap)
    /\ UNCHANGED <<cap, alive, held, tornDown, js>>
    /\ UNCHANGED batchVars
    /\ UNCHANGED configVars
    /\ UNCHANGED mdxVars
    /\ UNCHANGED <<manyPoolsVars, bindingVars, scriptVars>>

Warm(w, warm_count) == WarmCall(w, warm_count) /\ UNCHANGED warmed

\* The same call, with its argument and the number of renderers it built
\* kept for inspection
WarmObserved(w, warm_count) ==
    /\ WarmCall(w, warm_count)
    /\ warmed' = [warm_count |-> warm_count, created |-> nextId' - nextId]

\* Thread w ends: its leases are gone (they live on its stack), and the
\* thread-local map is dropped, which runs CacheEntry::drop.
ThreadExit(w) ==
    /\ alive[w] /\ pc[w] = "idle" /\ held[w] = {}
    /\ alive' = [alive EXCEPT ![w] = FALSE]
    /\ tornDown' = [tornDown EXCEPT ![w] = CacheEntryDrop(cache[CacheOf(w)])]
    /\ destroyed' = destroyed \cup Range(cache[CacheOf(w)])
    /\ cache' = [cache EXCEPT ![CacheOf(w)] = <<>>]
    /\ UNCHANGED <<cap, held, nextId, creator, js>>
    /\ UNCHANGED batchVars
    /\ UNCHANGED configVars
    /\ UNCHANGED mdxVars
    /\ UNCHANGED <<warmed, manyPoolsVars, bindingVars, scriptVars>>

\* ------------------------------------------------------ the JSX guard
\* A text arrives
InitJsx ==
    /\ cap = NoPool
    /\ NothingRunning
    /\ config = ServiceConfig(1)
    /\ service = "none"
    /\ content \in Texts
    /\ guarded = [result |-> <<>>, placeholders |-> EmptyFn]
    /\ restored = <<>>
    /\ jsxStage = "input"
    /\ NoCode
    /\ NoCall
    /\ NoPage
    /\ NoWarm
    /\ NoPools
    /\ NoBinding
    /\ NoScripts

\* let (protected, placeholders) = protect_jsx_components(content)
ProtectJsx ==
    /\ jsxStage = "input"
    /\ guarded' = protect_jsx_components(content)
    /\ jsxStage' = "protected"
    /\ UNCHANGED <<content, restored>>
    /\ UNCHANGED <<serviceVars, transformVars, runtimeVars, pipelineVars, bindingVars, scriptVars>>

\* restore_jsx_components(&protected, &placeholders)
RestoreJsx ==
    /\ jsxStage = "protected"
    /\ restored' = restore_jsx_components(guarded.result, guarded.placeholders)
    /\ jsxStage' = "restored"
    /\ UNCHANGED <<content, guarded>>
    /\ UNCHANGED <<serviceVars, transformVars, runtimeVars, pipelineVars, bindingVars, scriptVars>>

\* ---------------------------------------------- component registration
\* Component code arrives
InitTransform ==
    /\ cap = NoPool
    /\ NothingRunning
    /\ config = ServiceConfig(1)
    /\ service = "none"
    /\ NoText
    /\ code \in Codes
    /\ compiled = NotCompiled
    /\ NoCall
    /\ NoPage
    /\ NoWarm
    /\ NoPools
    /\ NoBinding
    /\ NoScripts

\* transform_component_code(code)
TransformComponentCode(parses) ==
    /\ compiled = NotCompiled
    /\ code # <<>>
    /\ compiled' = transform_component_code(code, parses)
    /\ UNCHANGED code
    /\ UNCHANGED <<serviceVars, jsxVars, runtimeVars, pipelineVars, bindingVars, scriptVars>>

\* ----------------------------------------- with_runtime, step by step
\* Renderers built with JsRenderer::new and used directly on one thread.  The
\* code that runs inside the closure f of a with_runtime call may start
\* another render (a re-entrant call) before the scripts of f run.
InitRuntime ==
    /\ cap = NoPool
    /\ NothingRunning
    /\ config = ServiceConfig(1)
    /\ service = "none"
    /\ NoText
    /\ NoCode
    /\ NoCall
    /\ NoPage
    /\ NoWarm
    /\ NoPools
    /\ NoBinding
    /\ NoScripts

\* with_runtime is called on renderer c, from the thread's top level or from
\* inside the closure of the innermost call in progress.  On a handle that is
\* borrowed the call is over at once; otherwise it takes the borrow, creates
\* the guard and enters f.
WithRuntimeCall(c, reg) ==
    /\ Len(stack) < MaxDepth
    /\ stack # <<>> => Last(stack).pc = "closure"
    /\ IF js[c].borrowed
       THEN LET r == with_runtime(js[c], reg)
            IN /\ js' = [js EXCEPT ![c] = r.state]
               /\ returned' = Returned(c, r.ran, IF r.ran THEN 1 ELSE 0)
               /\ UNCHANGED stack
       ELSE /\ js' = [js EXCEPT ![c].borrowed = TRUE]
            /\ stack' = Append(stack, Frame(c, "closure"))
            /\ UNCHANGED returned
    /\ UNCHANGED <<cap, alive, poolVars, batchVars, configVars>>
    /\ UNCHANGED <<warmed, manyPoolsVars, bindingVars, scriptVars>>
    /\ UNCHANGED <<jsxVars, transformVars, pipelineVars>>

\* f(&mut rt) of the innermost call: setup_context and the render script,
\* which registers the components reg
RunClosure(reg) ==
    /\ stack # <<>>
    /\ Last(stack).pc = "closure"
    /\ LET c == Last(stack).ctx
       IN js' = [js EXCEPT ![c] = RenderClosure(js[c], reg)]
    /\ stack' = [stack EXCEPT ![Len(stack)].pc = "done"]
    /\ UNCHANGED returned
    /\ UNCHANGED <<cap, alive, poolVars, batchVars, configVars>>
    /\ UNCHANGED <<warmed, manyPoolsVars, bindingVars, scriptVars>>
    /\ UNCHANGED <<jsxVars, transformVars, pipelineVars>>

\* The innermost call returns: its locals are dropped, the guard first, then
\* the RefMut.
WithRuntimeReturn ==
    /\ stack # <<>>
    /\ Last(stack).pc = "done"
    /\ LET c == Last(stack).ctx
           afterGuard == RuntimeCleanupGuardDrop(js[c])
       IN /\ js' = [js EXCEPT ![c] = [afterGuard EXCEPT !.borrowed = FALSE]]
          /\ returned' = Returned(c, TRUE, 1)
    /\ stack' = Front(stack)
    /\ UNCHANGED <<cap, alive, poolVars, batchVars, configVars>>
    /\ UNCHANGED <<warmed, manyPoolsVars, bindingVars, scriptVars>>
    /\ UNCHANGED <<jsxVars, transformVars, pipelineVars>>

\* ---------------------------------------------------- RenderService::new
\* RenderService::new(config) on thread w: validate, RendererPool::new, and
\* pool.warm(1) unless RUST_CMS_SKIP_POOL_WARMING is set.
RenderServiceNew(w, skip_pool_warming) ==
    /\ service = "none"
    /\ alive[w] /\ pc[w] = "idle"
    /\ LET v == RenderServiceConfigValidate(config)
       IN IF v # "ok"
          THEN /\ service' = v
               /\ UNCHANGED <<cap, cache, destroyed, creator, nextId>>
          ELSE /\ service' = "built"
               /\ cap' = config.max_cached_renderers
               /\ IF skip_pool_warming
                  THEN UNCHANGED <<cache, destroyed, creator, nextId>>
                  ELSE WarmRounds(w, 1, config.max_cached_renderers)
    /\ UNCHANGED <<config, alive, held, tornDown, js>>
    /\ UNCHANGED batchVars
    /\ UNCHANGED mdxVars
    /\ UNCHANGED <<warmed, manyPoolsVars, bindingVars, scriptVars>>

\* ------------------------------------------------- RenderService::render_batch
\* The call up to the first iteration of the loop: validation, the empty
\* batch, the checkout.
RenderBatchCall(w, inp) ==
    /\ alive[w] /\ pc[w] = "idle"
    /\ input' = [input EXCEPT ![w] = inp]
    /\ LET v == validate_resource_limits(inp)
       IN IF v # "ok"
          THEN /\ result' = [result EXCEPT ![w] = ErrResult("InvalidRequest", v)]
               /\ pc' = [pc EXCEPT ![w] = "returned"]
               /\ UNCHANGED <<cache, nextId, creator, lease, todo, acc, checkouts>>
          ELSE IF MdxIsEmpty(inp)
          THEN /\ result' = [result EXCEPT ![w] = BatchRenderOutcomeEmpty]
               /\ pc' = [pc EXCEPT ![w] = "returned"]
               /\ UNCHANGED <<cache, nextId, creator, lease, todo, acc, checkouts>>
          ELSE /\ checkouts' = [checkouts EXCEPT ![w] = 1]
               /\ \/ \E c \in CtxIds :
                        /\ CheckoutOk(w, c)
                        /\ lease' = [lease EXCEPT ![w] = c]
                        /\ pc' = [pc EXCEPT ![w] = "rendering"]
                        /\ todo' = [todo EXCEPT ![w] = DOMAIN inp.mdx]
                        /\ UNCHANGED <<acc, result>>
                  \/ /\ CheckoutCanFail(w)
                     /\ result' = [result EXCEPT ![w] = ErrResult("Internal", "none")]
                     /\ pc' = [pc EXCEPT ![w] = "returned"]
                     /\ UNCHANGED <<cache, nextId, creator, lease, todo, acc>>
    /\ UNCHANGED <<cap, alive, held, destroyed, tornDown, js, usedCtx>>
    /\ UNCHANGED configVars
    /\ UNCHANGED mdxVars
    /\ UNCHANGED <<warmed, manyPoolsVars, bindingVars, scriptVars>>

\* One iteration of the loop of render_batch, for a document d the loop has not
\* visited (HashMap iteration order); after the last one the outcome is built
\* and the lease is dropped.
RenderDocument(w, d, stage, reg) ==
    /\ pc[w] = "rendering"
    /\ d \in todo[w]
    /\ reg \subseteq DOMAIN input[w].components
    /\ LET c == lease[w]
           r == mdx_to_html_with_frontmatter(js[c], DOMAIN input[w].components,
                                             stage, reg)
           a == IF r.ok THEN RecordSuccess(acc[w], d) ELSE RecordFailure(acc[w], d)
           rest == RemainingAfter(todo[w], d, r.ok)
       IN /\ js' = [js EXCEPT ![c] = r.state]
          /\ usedCtx' = [usedCtx EXCEPT ![w] = (d :> c) @@ @]
          /\ IF rest = {}
             THEN /\ result' = [result EXCEPT ![w] = BatchRenderOutcomeNew(a)]
                  /\ RendererLeaseDrop(w, c)
                  /\ lease' = [lease EXCEPT ![w] = NoCtx]
                  /\ pc' = [pc EXCEPT ![w] = "returned"]
                  /\ todo' = [todo EXCEPT ![w] = {}]
                  /\ acc' = [acc EXCEPT ![w] = EmptyAcc]
             ELSE /\ acc' = [acc EXCEPT ![w] = a]
                  /\ todo' = [todo EXCEPT ![w] = rest]
                  /\ UNCHANGED <<cache, destroyed, result, lease, pc>>
    /\ UNCHANGED <<cap, alive, held, nextId, creator, tornDown, input, checkouts>>
    /\ UNCHANGED configVars
    /\ UNCHANGED mdxVars
    /\ UNCHANGED <<warmed, manyPoolsVars, bindingVars, scriptVars>>

\* The caller (handlers.rs, render) has turned the result into its response;
\* the request and the result are dropped.
HandlerRespond(w) ==
    /\ pc[w] = "returned"
    /\ pc' = [pc EXCEPT ![w] = "idle"]
    /\ input' = [input EXCEPT ![w] = [mdx |-> EmptyFn, components |-> EmptyFn]]
    /\ result' = [result EXCEPT ![w] = NoResult]
    /\ checkouts' = [checkouts EXCEPT ![w] = 0]
    /\ usedCtx' = [usedCtx EXCEPT ![w] = EmptyFn]
    /\ UNCHANGED <<cap, alive, lease, todo, acc>>
    /\ UNCHANGED poolVars
    /\ UNCHANGED js
    /\ UNCHANGED configVars
    /\ UNCHANGED mdxVars
    /\ UNCHANGED <<warmed, manyPoolsVars, bindingVars, scriptVars>>

\* ------------------------------------------- render_with_engine_pipeline
\* The markup of a document reaches the pipeline
InitPipeline ==
    /\ cap = NoPool
    /\ NothingRunning
    /\ config = ServiceConfig(1)
    /\ service = "none"
    /\ NoText
    /\ NoCode
    /\ NoCall
    /\ settings \in [output : OutputFormats, directives : DirectiveLists]
    /\ page \in Pages
    /\ renders = <<>>
    /\ rendered = NotRendered
    /\ NoWarm
    /\ NoPools
    /\ NoBinding
    /\ NoScripts

\* render_with_engine_pipeline(&context, &html_output)
RenderWithEnginePipeline ==
    /\ rendered = NotRendered
    /\ LET r == render_with_engine_pipeline(settings, page)
       IN /\ rendered' = r.result
          /\ renders' = r.renders
    /\ UNCHANGED <<settings, page>>
    /\ UNCHANGED <<serviceVars, jsxVars, transformVars, runtimeVars, bindingVars, scriptVars>>

\* ------------------------------------------------- bindings: Renderer::render
\* A caller of a binding hands in its input; render_batch will answer
InitBindings ==
    /\ cap = NoPool
    /\ NothingRunning
    /\ config = ServiceConfig(1)
    /\ service = "none"
    /\ NoText
    /\ NoCode
    /\ NoCall
    /\ NoPage
    /\ NoWarm
    /\ NoPools
    /\ call \in [binding : Bindings, parses : BOOLEAN, answer : Answers]
    /\ raised = NotCalled
    /\ NoScripts

\* renderer.render(input)
BindingRender ==
    /\ raised = NotCalled
    /\ raised' = BindingRenderResult(call)
    /\ UNCHANGED call
    /\ UNCHANGED <<serviceVars, mdxVars, scriptVars>>

\* ---------------------------------------------- the bootstrap script runs
\* A render with components: the bootstrap script starts in a runtime that
\* cleanup_runtime has left without component globals
InitRegistration ==
    /\ cap = NoPool
    /\ NothingRunning
    /\ config = ServiceConfig(1)
    /\ service = "none"
    /\ NoText
    /\ NoCode
    /\ NoCall
    /\ NoPage
    /\ NoWarm
    /\ NoPools
    /\ NoBinding
    /\ NoSource
    /\ NoScan
    /\ \E names \in SUBSET ComponentNames : registering \in [names -> ComponentCodes]
    /\ jsGlobals = [name \in ComponentNames |-> JsUndefined]
    /\ registeredNames = <<>>
    /\ thrown = NotThrown
    /\ registered = NoRegistration

\* The registration of one component inside the script of
\* build_component_registration_script (the HashMap decides the order); a
\* throw ends the script
RegisterComponent(name) ==
    /\ thrown = NotThrown
    /\ name \in DOMAIN registering
    /\ LET r == build_single_component_registration(
                    name, registering[name], jsGlobals, registeredNames)
       IN /\ thrown' = r.thrown
          /\ jsGlobals' = r.globals
          /\ registeredNames' = r.names
    /\ registered' = Registration(name, registering[name])
    /\ registering' = [n \in DOMAIN registering \ {name} |-> registering[n]]
    /\ UNCHANGED <<serviceVars, mdxVars, bindingVars, cleanupVars, scanVars>>

\* ------------------------------------------- a component source is compiled
InitCleanup ==
    /\ cap = NoPool
    /\ NothingRunning
    /\ config = ServiceConfig(1)
    /\ service = "none"
    /\ NoText
    /\ NoCode
    /\ NoCall
    /\ NoPage
    /\ NoWarm
    /\ NoPools
    /\ NoBinding
    /\ NoBootstrap
    /\ NoScan
    /\ source \in Sources
    /\ emitted = NotEmitted

\* transform_component_code(source)
CompileSource(parses) ==
    /\ emitted = NotEmitted
    /\ emitted' = TransformedScript(source, parses)
    /\ UNCHANGED source
    /\ UNCHANGED <<serviceVars, mdxVars, bindingVars, registrationVars, scanVars>>

\* --------------------------------------- the JSX guard runs, step by step
InitScan ==
    /\ cap = NoPool
    /\ NothingRunning
    /\ config = ServiceConfig(1)
    /\ service = "none"
    /\ NoText
    /\ NoCode
    /\ NoCall
    /\ NoPage
    /\ NoWarm
    /\ NoPools
    /\ NoBinding
    /\ NoBootstrap
    /\ NoSource
    /\ \E s \in ScanTexts : loop = [LoopIdle EXCEPT !.pc = "input", !.content = s]
    /\ scan = ScanIdle

\* protect_jsx_components up to the call of protect_jsx_with_children
ProtectPhaseOne ==
    /\ loop.pc = "input"
    /\ IF loop.content = <<>>
       THEN loop' = [loop EXCEPT !.pc = "done"]
       ELSE LET p == ProtectSelfClosing(loop.content, EmptyFn, 0,
                         MatchesReversed(loop.content, Len(loop.content)))
            IN loop' = [loop EXCEPT !.content = p.result,
                                    !.placeholders = p.placeholders,
                                    !.counter = p.counter,
                                    !.pc = "top"]
    /\ UNCHANGED scan
    /\ UNCHANGED <<serviceVars, mdxVars, bindingVars, registrationVars, cleanupVars>>

\* protect_jsx_with_children: from the top of the loop to the call of
\* find_matching_close_tag, or out of the loop
LoopTop ==
    /\ loop.pc = "top"
    /\ LET iterations == loop.iterations + 1
           opening == {i \in 1..Len(loop.content) :
                          loop.content[i].k \in {"self", "open"}}
       IN IF \/ iterations > MAX_JSX_PLACEHOLDERS
             \/ loop.counter >= MAX_JSX_PLACEHOLDERS
             \/ opening = {}
          THEN /\ loop' = [loop EXCEPT !.iterations = iterations, !.pc = "done"]
               /\ UNCHANGED scan
          ELSE /\ loop' = [loop EXCEPT !.iterations = iterations,
                                       !.open_pos = MinOf(opening),
                                       !.pc = "scanning"]
               /\ scan' = [ScanIdle EXCEPT
                              !.state = "running",
                              !.start = MinOf(opening) + 1,
                              !.tag_name = loop.content[MinOf(opening)].n,
                              !.nesting = 1,
                              !.pos = MinOf(opening) + 1]
    /\ UNCHANGED <<serviceVars, mdxVars, bindingVars, registrationVars, cleanupVars>>

\* find_matching_close_tag: one pass through its while loop, or its return
ScanStep ==
    /\ loop.pc = "scanning"
    /\ scan.state = "running"
    /\ LET r == ScanBody(scan, loop.content, loop.depth)
       IN /\ scan' = r.scan
          /\ loop' = [loop EXCEPT !.depth = r.depth]
    /\ UNCHANGED <<serviceVars, mdxVars, bindingVars, registrationVars, cleanupVars>>

\* protect_jsx_with_children: from the return of find_matching_close_tag to
\* the end of the iteration
LoopBottom ==
    /\ loop.pc = "scanning"
    /\ scan.state = "returned"
    /\ IF scan.found /\ loop.depth <= MAX_JSX_NESTING_DEPTH
       THEN LET full_jsx == SubSeq(loop.content, loop.open_pos, scan.close_pos)
            IN loop' = [loop EXCEPT
                           !.content = ReplaceRange(loop.content, loop.open_pos,
                                                    scan.close_pos,
                                                    <<Placeholder(loop.counter)>>),
                           !.placeholders = (loop.counter :> full_jsx) @@ @,
                           !.counter = @ + 1,
                           !.pc = "top"]
       ELSE loop' = [loop EXCEPT !.pc = "done"]
    /\ UNCHANGED scan
    /\ UNCHANGED <<serviceVars, mdxVars, bindingVars, registrationVars, cleanupVars>>

\* ------------------------------------------- several pools on one thread
\* RendererPool::new(static_dir, max_cached_per_key) accepts every capacity.
\* The pools are used on one thread, whose RENDERER_CACHE they share: the
\* cache is keyed by the profile only.
PoolIds == 1..NumPools
StaticDirs == {"dir_a", "dir_b"}
PoolConfigs == [static_dir : StaticDirs, max_cached_per_key : 0..MaxCached]
PoolsThread == 1

InitPools ==
    /\ cap = NoPool
    /\ NothingRunning
    /\ config = ServiceConfig(1)
    /\ service = "none"
    /\ NoText
    /\ NoCode
    /\ NoCall
    /\ NoPage
    /\ NoWarm
    /\ NoBinding
    /\ NoScripts
    /\ pools \in [PoolIds -> PoolConfigs]
    /\ madeBy = [c \in CtxIds |-> 0]
    /\ leasePool = [c \in CtxIds |-> 0]

\* The renderers the step creates were built by create_renderer of pool p,
\* with its static_dir
BuiltByPool(p) ==
    madeBy' = [c \in CtxIds |-> IF nextId < c /\ c <= nextId' THEN p ELSE madeBy[c]]

\* let lease = pools[p].checkout(RendererProfile::Engine)?  on thread w
PoolCheckout(p, w) ==
    /\ alive[w] /\ pc[w] = "idle"
    /\ \E c \in CtxIds :
          /\ CheckoutOk(w, c)
          /\ held' = [held EXCEPT ![w] = @ \cup {c}]
          /\ leasePool' = [leasePool EXCEPT ![c] = p]
    /\ BuiltByPool(p)
    /\ UNCHANGED <<cap, alive, destroyed, tornDown, js, pools>>
    /\ UNCHANGED batchVars
    /\ UNCHANGED configVars
    /\ UNCHANGED mdxVars
    /\ UNCHANGED <<warmed, bindingVars, scriptVars>>

\* drop(lease) on thread w: RendererLease::drop calls return_renderer of the
\* pool the lease was taken from
PoolDropLease(w, c) ==
    /\ alive[w] /\ pc[w] = "idle"
    /\ c \in held[w]
    /\ LET p == push_with_limit(cache[CacheOf(w)], c,
                                pools[leasePool[c]].max_cached_per_key)
       IN /\ cache' = [cache EXCEPT ![CacheOf(w)] = p.queue]
          /\ destroyed' = destroyed \cup p.evicted
    /\ held' = [held EXCEPT ![w] = @ \ {c}]
    /\ leasePool' = [leasePool EXCEPT ![c] = 0]
    /\ UNCHANGED <<cap, alive, nextId, creator, tornDown, js, pools, madeBy>>
    /\ UNCHANGED batchVars
    /\ UNCHANGED configVars
    /\ UNCHANGED mdxVars
    /\ UNCHANGED <<warmed, bindingVars, scriptVars>>

\* pools[p].warm(warm_count) on thread w
PoolWarm(p, w, warm_count) ==
    /\ alive[w] /\ pc[w] = "idle"
    /\ WarmRounds(w, warm_count, pools[p].max_cached_per_key)
    /\ BuiltByPool(p)
    /\ UNCHANGED <<cap, alive, held, tornDown, js, pools, leasePool>>
    /\ UNCHANGED batchVars
    /\ UNCHANGED configVars
    /\ UNCHANGED mdxVars
    /\ UNCHANGED <<warmed, bindingVars, scriptVars>>

\* -------------------------------------------------------- specifications
\* The threads that call RenderService::render_batch
ServiceWorkers == {1}

\* The service: RenderService::new warms one renderer (pool.warm(1)) on the
\* thread that builds it; render_batch runs on the service threads.
Next ==
    \/ \E w \in ServiceWorkers : Warm(w, 1)
    \/ \E w \in ServiceWorkers : HandlerRespond(w)
    \/ \E w \in ServiceWorkers : \E inp \in Inputs : RenderBatchCall(w, inp)
    \/ \E w \in ServiceWorkers : \E d \in DocNames : \E stage \in Stages :
          \E reg \in SUBSET CompNames : RenderDocument(w, d, stage, reg)

Spec == Init /\ [][Next]_vars

\* The pool used directly from every thread
NextPool ==
    \/ \E w \in Workers : Checkout(w)
    \/ \E w \in Workers : \E c \in CtxIds : DropLease(w, c)
    \/ \E w \in Workers : \E n \in 0..MaxWarm : Warm(w, n)
    \/ \E w \in Workers : ThreadExit(w)

SpecPool == Init /\ [][NextPool]_vars

\* The same, with the warm calls observed
NextWarm ==
    \/ \E w \in Workers : Checkout(w)
    \/ \E w \in Workers : \E c \in CtxIds : DropLease(w, c)
    \/ \E w \in Workers : \E n \in 0..MaxWarm : WarmObserved(w, n)
    \/ \E w \in Workers : ThreadExit(w)

SpecWarm == Init /\ [][NextWarm]_vars

\* The bootstrap script of a render with components
NextRegistration == \E name \in ComponentNames : RegisterComponent(name)

SpecRegistration == InitRegistration /\ [][NextRegistration]_vars

\* The compilation of a component source
NextCleanup == \E parses \in BOOLEAN : CompileSource(parses)

SpecCleanup == InitCleanup /\ [][NextCleanup]_vars

\* protect_jsx_components, step by step.  It runs on the calling thread from
\* its call to its return, so a step that can be taken is taken.
NextScan == ProtectPhaseOne \/ LoopTop \/ ScanStep \/ LoopBottom

SpecScan == InitScan /\ [][NextScan]_vars /\ WF_vars(NextScan)

\* Several pools used on one thread
NextPools ==
    \/ \E p \in PoolIds : PoolCheckout(p, PoolsThread)
    \/ \E c \in CtxIds : PoolDropLease(PoolsThread, c)
    \/ \E p \in PoolIds : \E n \in 0..MaxWarm : PoolWarm(p, PoolsThread, n)

SpecPools == InitPools /\ [][NextPools]_vars

\* A render call through a binding
NextBindings == BindingRender

SpecBindings == InitBindings /\ [][NextBindings]_vars

\* Construction of a service from a configuration
NextConfig ==
    \E w \in ServiceWorkers : \E skip_pool_warming \in BOOLEAN :
        RenderServiceNew(w, skip_pool_warming)

SpecConfig == InitConfig /\ [][NextConfig]_vars

\* The JSX guard applied to a text
NextJsx == ProtectJsx \/ RestoreJsx

SpecJsx == InitJsx /\ [][NextJsx]_vars

\* The transform of one component's code
NextTransform == \E parses \in BOOLEAN : TransformComponentCode(parses)

SpecTransform == InitTransform /\ [][NextTransform]_vars

\* The pipeline applied to the markup of one document
NextPipeline == RenderWithEnginePipeline

SpecPipeline == InitPipeline /\ [][NextPipeline]_vars

\* Renders on one thread, re-entrant ones included
NextRuntime ==
    \/ \E c \in CtxIds : \E reg \in SUBSET CompNames : WithRuntimeCall(c, reg)
    \/ \E reg \in SUBSET CompNames : RunClosure(reg)
    \/ WithRuntimeReturn

SpecRuntime == InitRuntime /\ [][NextRuntime]_vars

\* The same, with renders that keep coming: a call in progress runs its
\* closure and returns, and every renderer is acquired again and again.
SpecRuntimeLive ==
    /\ SpecRuntime
    /\ WF_vars(\E reg \in SUBSET CompNames : RunClosure(reg))
    /\ WF_vars(WithRuntimeReturn)
    /\ \A c \in CtxIds :
          SF_vars(\E reg \in SUBSET CompNames :
                     ~js[c].borrowed /\ WithRuntimeCall(c, reg))


\* ================================================================ claims
\* Helpers of the formulas below
Docs(w) == DOMAIN input[w].mdx
Comps(w) == DOMAIN input[w].components
ExceedsBatch(w) == Cardinality(Docs(w)) > MaxBatchSize
ExceedsDocument(w) == \E d \in Docs(w) : input[w].mdx[d] > MaxMdxContentSize
ExceedsComponent(w) == \E n \in Comps(w) : input[w].components[n] > MaxComponentCodeSize
PassesValidation(w) == ~ExceedsBatch(w) /\ ~ExceedsDocument(w) /\ ~ExceedsComponent(w)
CreatedBy(w) == {c \in CtxIds : creator[c] = w}

\* C1: after any render call on a context has returned (between two steps every
\* call has), cleanup has run on it: no registered component global is left,
\* the registry list is empty and the context accessor is deleted.
C1_CleanAfterRender ==
    \A c \in CtxIds :
        /\ js[c].globals = {}
        /\ js[c].registry = {}
        /\ ~js[c].context

\* C2: a non-empty batch that passes validation makes exactly one checkout,
\* renders each document once against the renderer of that lease, and when the
\* call has returned (Ok or Err) no lease is left and the renderer it used is
\* back in the calling thread's cache, at the most-recently-used end.
C2_OneLeasePerBatch ==
    \A w \in Workers :
        /\ pc[w] = "rendering" =>
              /\ checkouts[w] = 1
              /\ lease[w] # NoCtx
              /\ lease[w] \notin Range(cache[w])
              /\ DOMAIN usedCtx[w] = Docs(w) \ todo[w]
              /\ \A d \in DOMAIN usedCtx[w] : usedCtx[w][d] = lease[w]
        /\ (pc[w] = "returned" /\ PassesValidation(w) /\ Docs(w) # {}) =>
              /\ checkouts[w] = 1
              /\ lease[w] = NoCtx
              /\ result[w].kind \in {"Ok", "Internal"}
              /\ result[w].kind = "Internal" => usedCtx[w] = EmptyFn
              /\ result[w].kind = "Ok" =>
                    /\ DOMAIN usedCtx[w] = Docs(w)
                    /\ cache[w] # <<>>
                    /\ \A d \in Docs(w) : usedCtx[w][d] = Last(cache[w])
                    /\ Last(cache[w]) \notin destroyed

C2_Witness ==
    \E w \in Workers :
        /\ pc[w] = "returned" /\ result[w].kind = "Ok"
        /\ Cardinality(Docs(w)) = MaxBatchSize
        /\ Len(cache[w]) = 1

\* Steps of C3: what a checkout from the cache and a lease return do to the queue
C3_Step ==
    \A w \in Workers : \A c \in CtxIds :
        /\ (c \in Range(cache[w]) /\ c \notin held[w] /\ c \in held'[w]) =>
              /\ c = Last(cache[w])
              /\ cache'[w] = Front(cache[w])
        /\ (c \in held[w] /\ c \notin held'[w]) =>
              LET full == Len(cache[w]) = cap
              IN /\ cache'[w] = Append(IF full THEN Tail(cache[w]) ELSE cache[w], c)
                 /\ destroyed' \ destroyed = IF full THEN {Head(cache[w])} ELSE {}

C3_Bounded == \A w \in Workers : Len(cache[w]) <= cap

\* C3: the cache of a thread is an LRU queue: a checkout that finds the cache
\* non-empty takes its most recently returned renderer; a lease return appends
\* at that end and, when the cache already holds cap renderers, evicts exactly
\* one, the least recently returned; the cache never holds more than cap.
C3_LruQueue == []C3_Bounded /\ [][C3_Step]_vars

\* cap + 1 renderers were created on one thread, all have been released, and
\* exactly one of them has been evicted
C3_Witness ==
    \E w \in Workers :
        /\ nextId = cap + 1
        /\ CreatedBy(w) = 1..nextId
        /\ held[w] = {} /\ alive[w]
        /\ Len(cache[w]) = cap
        /\ Cardinality(destroyed) = 1

\* Steps of C4: a lease drop, and a checkout that finds the cache non-empty
C4_Step ==
    \A w \in Workers : \A c \in CtxIds :
        /\ (c \in held[w] /\ c \notin held'[w]) =>
              /\ cache'[w] # <<>>
              /\ Last(cache'[w]) = c
              /\ c \notin destroyed'
        /\ (cache[w] # <<>> /\ c \notin held[w] /\ c \in held'[w]) =>
              /\ c = Last(cache[w])
              /\ nextId' = nextId
              /\ creator' = creator

\* C4: dropping a lease puts its renderer at the most-recently-used end of the
\* thread's cache, and a checkout that finds the cache non-empty returns the
\* renderer at that end and constructs nothing.
C4_ReturnedIsNext == [][C4_Step]_vars

C4_Witness ==
    \E w \in Workers :
        /\ Len(cache[w]) = 2
        /\ held[w] # {}
        /\ Last(cache[w]) < Head(cache[w])

\* C5: when a cache entry is discarded with its queued renderers, they are
\* released in reverse order of creation: a renderer created later is released
\* before one created earlier.
C5_LifoTeardown ==
    \A w \in Workers :
        \A i, j \in 1..Len(tornDown[w]) :
            i < j => tornDown[w][i] > tornDown[w][j]

\* C6: a renderer created on thread T is cached only in T's cache and leased
\* only on T.
C6_ThreadAffine ==
    \A w \in Workers :
        \A c \in Range(cache[w]) \cup Leased(w) : creator[c] = w

C6_Witness ==
    /\ \A w \in Workers : cache[w] # <<>>
    /\ \E w \in Workers : held[w] # {}

\* Parts of C7: the returned result, and the step that returns InvalidRequest
C7_Returned ==
    \A w \in Workers :
        pc[w] = "returned" =>
            /\ result[w].kind = "InvalidRequest" <=> ~PassesValidation(w)
            /\ result[w].kind = "InvalidRequest" =>
                  /\ result[w].resource =
                        IF ExceedsBatch(w) THEN "batch"
                        ELSE IF ExceedsDocument(w) THEN "document"
                        ELSE "component"
                  /\ checkouts[w] = 0
                  /\ usedCtx[w] = EmptyFn
                  /\ result[w].files = EmptyFn

C7_Step ==
    \A w \in Workers :
        (pc[w] = "idle" /\ pc'[w] = "returned" /\ result'[w].kind = "InvalidRequest") =>
            UNCHANGED <<cache, nextId, creator, destroyed, js, lease>>

\* C7: render_batch validates first -- document count, then document sizes,
\* then component code sizes, each exceeded only by a size strictly above the
\* limit -- and a violation returns InvalidRequest naming the first exceeded
\* resource, with no checkout, no document rendered and the cache unchanged.
C7_ValidationFirst == []C7_Returned /\ [][C7_Step]_vars

\* too many documents and an oversized document and component: the count is reported
C7_Witness ==
    \E w \in Workers :
        /\ pc[w] = "returned"
        /\ ExceedsBatch(w) /\ ExceedsDocument(w) /\ ExceedsComponent(w)
        /\ result[w].resource = "batch"

\* C8: every outcome render_batch returns has total = succeeded + failed,
\* exactly total entries in files, total equal to the number of documents of
\* the request, and exactly failed entries in errors, one per failed document.
C8_OutcomeCounts ==
    \A w \in Workers :
        (pc[w] = "returned" /\ result[w].kind = "Ok") =>
            LET r == result[w]
            IN /\ r.total = r.succeeded + r.failed
               /\ Cardinality(DOMAIN r.files) = r.total
               /\ r.total = Cardinality(Docs(w))
               /\ Len(r.errors) = r.failed
               /\ Range(r.errors) = {d \in DOMAIN r.files : r.files[d].status = "Failed"}
               /\ Cardinality(Range(r.errors)) = r.failed

C8_Witness ==
    \E w \in Workers :
        /\ pc[w] = "returned" /\ result[w].kind = "Ok"
        /\ result[w].succeeded >= 1 /\ result[w].failed >= 1

\* Parts of C9: the returned files, and the step that leaves the loop
C9_Returned ==
    \A w \in Workers :
        (pc[w] = "returned" /\ result[w].kind = "Ok") =>
            /\ DOMAIN result[w].files = Docs(w)
            /\ DOMAIN usedCtx[w] = Docs(w)
            /\ \A d \in Docs(w) :
                  LET f == result[w].files[d]
                  IN \/ f.status = "Success" /\ f.result = "rendered" /\ f.error = "none"
                     \/ f.status = "Failed" /\ f.result = "fallback" /\ f.error = "message"

C9_Step ==
    \A w \in Workers :
        (pc[w] = "rendering" /\ pc'[w] # "rendering") => Cardinality(todo[w]) = 1

\* C9: a failing document does not abort the batch: the call returns only after
\* the last document, every document of the request has an entry in files, a
\* failed one with status Failed, an error and the fallback result, a
\* successful one with status Success, a result and no error.
C9_NoAbort == []C9_Returned /\ [][C9_Step]_vars

\* every document of a full batch failed, each one rendered all the same
C9_Witness ==
    \E w \in Workers :
        /\ pc[w] = "returned" /\ result[w].kind = "Ok"
        /\ result[w].failed = MaxBatchSize
        /\ DOMAIN usedCtx[w] = Docs(w)

\* C10 as stated: every request with an empty document map returns the empty
\* Ok outcome.
C10_EmptyAlwaysOk ==
    \A w \in Workers :
        (pc[w] = "returned" /\ Docs(w) = {}) => result[w] = BatchRenderOutcomeEmpty

\* Parts of the amended C10: the returned result, and the call step
C10_Returned ==
    \A w \in Workers :
        (pc[w] = "returned" /\ Docs(w) = {}) =>
            /\ result[w] = IF ExceedsComponent(w)
                           THEN ErrResult("InvalidRequest", "component")
                           ELSE BatchRenderOutcomeEmpty
            /\ checkouts[w] = 0
            /\ usedCtx[w] = EmptyFn

C10_Step ==
    \A w \in Workers :
        (pc[w] = "idle" /\ pc'[w] # "idle" /\ DOMAIN input'[w].mdx = {}) =>
            /\ pc'[w] = "returned"
            /\ UNCHANGED <<cache, nextId, creator, destroyed, js, lease>>

\* C10 amended: a request with an empty document map whose components all pass
\* the code-size limit returns the empty Ok outcome (one with an oversized
\* component returns InvalidRequest); either way there is no checkout, no
\* renderer is created and the cache is unchanged.
C10_EmptyBatch == []C10_Returned /\ [][C10_Step]_vars

C10_Witness ==
    \E w \in Workers :
        /\ pc[w] = "returned" /\ Docs(w) = {} /\ Comps(w) # {}
        /\ result[w] = BatchRenderOutcomeEmpty
        /\ cache[w] # <<>>

\* Parts of C11: the returned error, and the step that returns it
C11_Returned ==
    \A w \in Workers :
        (pc[w] = "returned" /\ result[w].kind = "Internal") =>
            /\ PassesValidation(w) /\ Docs(w) # {}
            /\ result[w] = ErrResult("Internal", "none")
            /\ result[w].files = EmptyFn /\ result[w].errors = <<>>
            /\ result[w].failed = 0 /\ result[w].total = 0
            /\ usedCtx[w] = EmptyFn
            /\ lease[w] = NoCtx
            /\ cache[w] = <<>>

C11_Step ==
    \A w \in Workers :
        (pc[w] = "idle" /\ pc'[w] = "returned" /\ result'[w].kind = "Internal") =>
            /\ cache[w] = <<>>
            /\ UNCHANGED <<cache, nextId, creator, destroyed, js, lease, acc>>

\* C11: when the pool cannot supply a renderer for a valid non-empty batch
\* (nothing cached on the thread and construction fails), render_batch returns
\* the Internal error: there is no outcome, no document is recorded as failed,
\* no renderer is created and nothing is added to the cache.
C11_PoolFailureIsFatal == []C11_Returned /\ [][C11_Step]_vars

\* a full valid batch met a pool that could not build its first renderer
C11_Witness ==
    \E w \in Workers :
        /\ pc[w] = "returned" /\ result[w].kind = "Internal"
        /\ Cardinality(Docs(w)) = MaxBatchSize
        /\ Comps(w) # {}
        /\ nextId = 0

\* What C12 asks of the resource limits of a configuration
C12_LimitsValid(c) ==
    /\ c.max_batch_size >= 1 /\ c.max_batch_size <= MAX_RECOMMENDED_BATCH_SIZE
    /\ c.max_mdx_content_size >= 1
    /\ c.max_mdx_content_size <= MAX_RECOMMENDED_MDX_CONTENT_SIZE
    /\ c.max_component_code_size >= 1

\* C12: RenderService::new returns an error, with no pool built and no renderer
\* created or warmed, for every configuration with a resource limit that is
\* zero or above its maximum (batch size 100,000, document size 100 MiB); it
\* succeeds with the limits on 1 or on the maxima when the static directory and
\* the cache size are in order; so every service that exists has valid limits.
C12_FailFast ==
    service # "none" =>
        /\ ~C12_LimitsValid(config) =>
              /\ service # "built"
              /\ cap = NoPool /\ nextId = 0
              /\ \A w \in Workers : cache[w] = <<>>
        /\ (/\ C12_LimitsValid(config)
            /\ config.static_dir = "dir"
            /\ config.max_cached_renderers \in 1..MAX_CACHED_RENDERERS) =>
              /\ service = "built"
              /\ cap = config.max_cached_renderers
        /\ service = "built" => C12_LimitsValid(config)

\* a service built, and warmed, from a configuration on both maxima
C12_Witness ==
    /\ service = "built"
    /\ config.max_batch_size = MAX_RECOMMENDED_BATCH_SIZE
    /\ config.max_mdx_content_size = MAX_RECOMMENDED_MDX_CONTENT_SIZE
    /\ config.max_component_code_size = 1
    /\ nextId = 1

\* The precondition of C13: every tag of the text is closed in the right order,
\* nesting and the number of guarded usages stay within the caps.
RECURSIVE C13_Balanced(_, _)
C13_Balanced(s, opened) ==
    IF s = <<>> THEN opened = <<>>
    ELSE IF Head(s).k \in {"open", "tag"}
    THEN /\ Len(opened) < MAX_JSX_NESTING_DEPTH
         /\ C13_Balanced(Tail(s), <<Head(s).n>> \o opened)
    ELSE IF Head(s).k = "close"
    THEN /\ opened # <<>>
         /\ Head(opened) = Head(s).n
         /\ C13_Balanced(Tail(s), Tail(opened))
    ELSE C13_Balanced(Tail(s), opened)

C13_WellNested(s) ==
    /\ C13_Balanced(s, <<>>)
    /\ Cardinality({i \in 1..Len(s) : s[i].k \in {"self", "open"}})
          <= MAX_JSX_PLACEHOLDERS

\* C13: restore_jsx_components(protect_jsx_components(X)) = X for every text X
\* whose guarded usages are well-formed and well-nested within the caps, and
\* no placeholder token is left in the restored text.
C13_RoundTrip ==
    (jsxStage = "restored" /\ C13_WellNested(content)) =>
        /\ restored = content
        /\ \A i \in 1..Len(restored) : restored[i].k # "ph"

\* Parts of C14: the default exports of a code, the one shape that is accepted
\* and the labels of the rejected ones
C14_DefaultExports(s) ==
    {i \in 1..(Len(s) - 2) : s[i] = "export" /\ s[i + 1] = "default"}

C14_IsFunctionComponent(s, i) ==
    Len(s) >= i + 3 /\ s[i + 2] = "function" /\ s[i + 3] = "Component"

C14_Identifiers == {"Component", "Button"}

C14_Labels ==
    {<<"arrow function">>, <<"async arrow function">>, <<"async function">>}
    \cup {<<"class", n>> : n \in C14_Identifiers}
    \cup {<<"function", n>> : n \in C14_Identifiers \ {"Component"}}
    \cup {<<n>> : n \in C14_Identifiers}

\* C14: for component code with a default export, wherever it stands in the
\* code, transform_component_code succeeds only when the default export is the
\* synchronous function declaration named Component; with any other shape it
\* returns InvalidExportDefault labelled "arrow function", "async arrow
\* function", "async function", "class <name>", "function <name>" or the
\* identifier.
C14_ExportShape ==
    \A i \in C14_DefaultExports(code) :
        (compiled.kind # "none" /\ C14_DefaultExports(code) = {i}
                                /\ ~C14_IsFunctionComponent(code, i)) =>
            /\ compiled.kind = "InvalidExportDefault"
            /\ compiled.label \in C14_Labels

\* Parts of C15.  Number of occurrences of the token t in the text s
C15_Count(s, t) == Cardinality({i \in 1..Len(s) : s[i] = t})

\* the map has at most MAX_JSX_PLACEHOLDERS entries, numbered 0..n-1
C15_Indices ==
    LET n == Cardinality(DOMAIN guarded.placeholders)
    IN /\ n <= MAX_JSX_PLACEHOLDERS
       /\ DOMAIN guarded.placeholders = 0..(n - 1)

\* each token of the map stands at exactly one place, in the protected text or
\* inside an entry, and no other placeholder token exists
C15_CreatedOnce ==
    LET map == guarded.placeholders
        texts == {guarded.result} \cup {map[i] : i \in DOMAIN map}
    IN /\ \A i \in DOMAIN map :
              /\ C15_Count(guarded.result, Placeholder(i)) <= 1
              /\ \A j \in DOMAIN map : C15_Count(map[j], Placeholder(i)) <= 1
              /\ Cardinality(
                    {<<0, 0>> : x \in {1} \cap {C15_Count(guarded.result, Placeholder(i))}}
                    \cup {<<1, j>> : j \in {l \in DOMAIN map :
                                               C15_Count(map[l], Placeholder(i)) = 1}}) = 1
       /\ \A t \in texts : \A l \in 1..Len(t) :
              t[l].k = "ph" => t[l].i \in DOMAIN map

\* each entry is text of the input: a span of it, free of placeholder tokens
C15_OriginalText ==
    \A i \in DOMAIN guarded.placeholders :
        LET jsx == guarded.placeholders[i]
        IN \E from \in 1..Len(content) :
              /\ from + Len(jsx) - 1 <= Len(content)
              /\ SubSeq(content, from, from + Len(jsx) - 1) = jsx

\* C15: for every input text the placeholder map returned by
\* protect_jsx_components has at most MAX_JSX_PLACEHOLDERS entries, each token
\* <!--JSX:N--> is created at most once, the indices are exactly 0..n-1, and
\* each entry holds the exact original text that its token replaced.
C15_PlaceholderMap ==
    jsxStage \in {"protected", "restored"} =>
        /\ C15_Indices
        /\ C15_CreatedOnce
        /\ C15_OriginalText

\* Parts of C16.  Every borrowed handle is held by exactly one call in progress
C16_Held ==
    /\ \A c \in CtxIds : js[c].borrowed <=> \E i \in 1..Len(stack) : stack[i].ctx = c
    /\ \A i, j \in 1..Len(stack) : stack[i].ctx = stack[j].ctx => i = j

\* a call made on a borrowed handle is over in one step, with an error and
\* nothing executed; a call that returns leaves the state of its runtime as its
\* scripts left it (its guard found the handle busy) and releases the handle
C16_Step ==
    /\ (stack' = stack /\ returned' # returned) =>
          /\ js[returned'.ctx].borrowed
          /\ returned'.kind = "Err"
          /\ returned'.scripts = 0
          /\ js' = js
    /\ Len(stack') < Len(stack) =>
          LET c == Last(stack).ctx
          IN /\ returned'.kind = "Ok"
             /\ js'[c] = [js[c] EXCEPT !.borrowed = FALSE]
             /\ \A d \in CtxIds \ {c} : js'[d] = js[d]

\* C16: a render started on a renderer whose runtime handle is already mutably
\* borrowed returns an error without executing any script, and a cleanup guard
\* that finds the handle busy skips cleanup; neither waits for the handle: the
\* call ends in the step it was made in, and the handle is free once the call
\* that held it has returned.
C16_BusyHandle == []C16_Held /\ [][C16_Step]_vars

\* a re-entrant render on the renderer whose closure is running has failed
C16_Witness ==
    /\ stack # <<>>
    /\ returned.kind = "Err"
    /\ returned.ctx = Last(stack).ctx
    /\ js[returned.ctx].borrowed

\* Parts of C17: a render on c has returned and has left state behind; the
\* state cleanup_runtime removes is gone
C17_LeftBehind(c) ==
    /\ ~js[c].borrowed
    /\ js[c].context \/ js[c].registry # {}

C17_Cleaned(c) ==
    /\ ~js[c].borrowed
    /\ ~js[c].context /\ js[c].registry = {} /\ js[c].globals = {}

\* C17: when the cleanup at the end of a render was skipped because the handle
\* was busy, it is performed later: with renders that keep acquiring the
\* runtime of that renderer, the state the render left behind is eventually
\* cleaned up.
C17_EventuallyCleaned ==
    \A c \in CtxIds : C17_LeftBehind(c) ~> C17_Cleaned(c)

\* C18: the status of the response is a function of what render_batch
\* returned: for an outcome 200 exactly when failed = 0 (the empty batch
\* included), 500 exactly when total > 0 and succeeded = 0, and 207 otherwise,
\* and is_all_success and is_complete_failure are never both true of it; for an
\* error 400 for InvalidRequest, 403 for Forbidden and 500 for Internal.
C18_HttpStatus ==
    /\ \A w \in Workers :
          (pc[w] = "returned" /\ result[w].kind = "Ok") =>
              LET o == result[w]
                  status == handle_render_result(o)
              IN /\ status = 200 <=> o.failed = 0
                 /\ status = 500 <=> (o.total > 0 /\ o.succeeded = 0)
                 /\ status = 207 <=> ~(o.failed = 0) /\ ~(o.total > 0 /\ o.succeeded = 0)
                 /\ ~(is_all_success(o) /\ is_complete_failure(o))
                 /\ Docs(w) = {} => status = 200
    /\ \A w \in Workers :
          (pc[w] = "returned" /\ result[w].kind # "Ok") =>
              handle_render_result(result[w]) =
                  IF result[w].kind = "InvalidRequest" THEN 400 ELSE 500
    /\ handle_render_result(ErrResult("InvalidRequest", "batch")) = 400
    /\ handle_render_result(ErrResult("Forbidden", "none")) = 403
    /\ handle_render_result(ErrResult("Internal", "none")) = 500

\* a batch with a rendered and a failed document is answered with 207
C18_Witness ==
    \E w \in Workers :
        /\ pc[w] = "returned" /\ result[w].kind = "Ok"
        /\ result[w].succeeded >= 1 /\ result[w].failed >= 1
        /\ handle_render_result(result[w]) = 207

\* the type names of the elements of a tree: the element itself and the
\* elements among its children
RECURSIVE C19_ElementTypes(_)
C19_ElementTypes(node) ==
    IF node.k # "object" THEN {}
    ELSE {node.type} \cup
         UNION {C19_ElementTypes(node.children[i]) : i \in 1..Len(node.children)}

\* position of a string in the ascending order
C19_Rank(x) == CHOOSE i \in 1..Len(Ascending) : Ascending[i] = x

\* the list has no duplicates and is in ascending order
C19_SortedUnique(list) ==
    \A i, j \in 1..Len(list) : i < j => C19_Rank(list[i]) < C19_Rank(list[j])

\* the components list holds exactly the capitalized element types but Fragment
C19_ExactlyTheElements ==
    (settings.output = "Schema" /\ rendered.kind = "Ok") =>
        Range(rendered.schema.components) =
            {t \in C19_ElementTypes(page.tree) :
                 t # <<>> /\ Head(t) \in Uppercase /\ t # Fragment}

\* the components list is sorted and free of duplicates
C19_ComponentsSorted ==
    (settings.output = "Schema" /\ rendered.kind = "Ok") =>
        C19_SortedUnique(rendered.schema.components)

\* without directive prefixes the directives section is empty
C19_NoPrefixesNoDirectives ==
    (settings.output = "Schema" /\ rendered.kind = "Ok" /\ settings.directives = <<>>) =>
        /\ rendered.schema.keys = <<>>
        /\ rendered.schema.patterns = <<>>
        /\ rendered.schema.values = <<>>

\* C19: for Schema output the components list is exactly the set of element
\* type names of the rendered JSON tree that start with an uppercase letter and
\* are not Fragment, without duplicates and in ascending order; and without
\* directive prefixes the directive keys, patterns and values are all empty.
C19_SchemaComponents ==
    /\ C19_ExactlyTheElements
    /\ C19_ComponentsSorted
    /\ C19_NoPrefixesNoDirectives

\* the run of the pipeline on the same document with Schema output
C20_AsSchema ==
    render_with_engine_pipeline([settings EXCEPT !.output = "Schema"], page)

\* the render stage of Schema output succeeds: the compile step and the
\* structural render do
C20_SchemaStageSucceeds ==
    page.compiles /\ render_template_to_schema(page).kind = "Ok"

\* C20: Json output and Schema output run the same render stage, the same
\* compile step followed by one structural render on the renderer and nothing
\* else, so Json succeeds on a document exactly when the render stage of Schema
\* succeeds on it; Json returns the tree that Schema extracts its schema from.
C20_SameRenderStage ==
    (settings.output = "Json" /\ rendered.kind # "none") =>
        /\ renders = C20_AsSchema.renders
        /\ page.compiles => renders = <<"structural">>
        /\ rendered.kind = "Ok" <=> C20_SchemaStageSucceeds
        /\ rendered.kind = "Ok" =>
              /\ rendered.tree = page.tree
              /\ C20_AsSchema.result =
                     extract_schema_from_json(rendered.tree, settings.directives)

\* the smaller of two numbers
C21_Min(a, b) == IF a < b THEN a ELSE b

\* What a warm(warm_count) call on thread w has done when it returns
C21_Warmed(w, warm_count) ==
    LET built == (nextId + 1)..nextId'
        added == Range(cache'[w]) \ Range(cache[w])
    IN /\ Cardinality(built) <= C21_Min(warm_count, cap)
       /\ added \subseteq built
       /\ Cardinality(added) <= C21_Min(warm_count, cap)
       /\ Len(cache'[w]) <= cap
       /\ built = {} => UNCHANGED <<cache, destroyed>>
       /\ \A c \in built : creator'[c] = w /\ (c \in added \/ c \in destroyed')
       /\ \A v \in Workers \ {w} : cache'[v] = cache[v]
       /\ UNCHANGED <<held, alive, pc, result>>

C21_Step ==
    \A w \in Workers : \A n \in 0..MaxWarm :
        WarmObserved(w, n) => C21_Warmed(w, n)

C22_DistinctTypes ==
    (raised.kind = "Err" /\ call.parses) =>
        \A e \in BatchErrors :
            ErrorType(call.binding, e) = raised.type => e = call.answer.kind

\* the token is a tag that opens an element named exactly tag_name
C23_ExactNameOpens(t, tag_name) ==
    t.k \in {"self", "open", "tag"} /\ t.n = tag_name

\* the position of the close of tag_name that balances an opening before pos,
\* counting only tags named exactly tag_name (0: there is none, or the nesting
\* exceeds the limit)
RECURSIVE C23_BalancingClose(_, _, _, _)
C23_BalancingClose(s, pos, tag_name, nesting) ==
    IF pos > Len(s) THEN 0
    ELSE IF C23_ExactNameOpens(s[pos], tag_name)
    THEN IF nesting + 1 > MAX_JSX_NESTING_DEPTH THEN 0
         ELSE C23_BalancingClose(s, pos + 1, tag_name, nesting + 1)
    ELSE IF s[pos].k = "close" /\ s[pos].n = tag_name
    THEN IF nesting = 1 THEN pos
         ELSE C23_BalancingClose(s, pos + 1, tag_name, nesting - 1)
    ELSE C23_BalancingClose(s, pos + 1, tag_name, nesting)

\* the text protect_jsx_with_children starts from: content after phase 1
C23_Working ==
    ProtectSelfClosing(content, EmptyFn, 0, MatchesReversed(content, Len(content))).result

\* the matches of OPENING_JSX_PATTERN in that text
C23_Opening == {i \in 1..Len(C23_Working) : C23_Working[i].k \in {"self", "open"}}

\* C23: find_matching_close_tag returns the position of the closing tag that
\* balances the opening tag before start: from nesting 1, only opening tags
\* named exactly tag_name raise the nesting (<CardHeader> inside <Card> does
\* not), every </tag_name> lowers it, and the result is the close at which it
\* reaches 0; None only when there is no such close or the nesting exceeds the
\* limit.  Stated of the first call protect_jsx_with_children makes.
C23_MatchingClose ==
    (jsxStage = "protected" /\ C23_Opening # {} /\ MAX_JSX_PLACEHOLDERS > 0
       /\ Cardinality({i \in 1..Len(content) : content[i].k = "self"})
              < MAX_JSX_PLACEHOLDERS) =>
        LET open_pos == MinOf(C23_Opening)
            tag_name == C23_Working[open_pos].n
            m == find_matching_close_tag(C23_Working, open_pos + 1, tag_name, 1, 0)
            expected == C23_BalancingClose(C23_Working, open_pos + 1, tag_name, 1)
        IN /\ m.found <=> expected # 0
           /\ m.found => m.close_pos = expected

\* position i of the text s holds a guarded opening tag with a balancing close
C24_WellFormed(s, i) ==
    s[i].k = "open" /\ C23_BalancingClose(s, i + 1, s[i].n, 1) # 0

\* position i of the text s holds a guarded opening tag without matching close
C24_Unmatched(s, i) ==
    s[i].k = "open" /\ C23_BalancingClose(s, i + 1, s[i].n, 1) = 0

\* C24: a guarded opening tag without matching closing tag does not make
\* protect_jsx_with_children fail: that construct is skipped and left as it
\* is, and the well-formed guarded usages with children that follow it in the
\* text are still replaced by placeholders (as long as the placeholder limit is
\* not reached).
C24_SkipsUnbalanced ==
    (jsxStage = "protected"
       /\ Cardinality({i \in 1..Len(content) : content[i].k \in {"self", "open"}})
              <= MAX_JSX_PLACEHOLDERS) =>
        /\ (C23_Opening # {} /\ C24_Unmatched(C23_Working, MinOf(C23_Opening))) =>
              /\ Len(guarded.result) >= MinOf(C23_Opening)
              /\ guarded.result[MinOf(C23_Opening)] = C23_Working[MinOf(C23_Opening)]
        /\ \A i \in 1..Len(guarded.result) :
              (\E j \in 1..(i - 1) : C24_Unmatched(guarded.result, j)) =>
                  ~C24_WellFormed(guarded.result, i)

\* The code of a component that defines no Component binding and assigns no
\* export
C25_ExportsNothing(c) ==
    c.Component = "undefined" /\ c.default = "undefined" /\ c.module_exports = "kept"

\* C25: registering a component whose code defines no Component binding and
\* assigns no export throws 'Component <name> did not export a value': nothing
\* is assigned to the global of that name and nothing is pushed to the
\* registry list.
C25_NoExportFails ==
    (registered.name # "none" /\ C25_ExportsNothing(registered.code)) =>
        /\ thrown = DidNotExportAValue(registered.name)
        /\ jsGlobals[registered.name] = JsUndefined
        /\ registered.name \notin Range(registeredNames)

\* C26: no line of the script text the compiler emits begins with import or
\* export: import lines and pure export lines are removed and an exported
\* declaration is emitted without the export keyword.
C26_NoModuleSyntax ==
    emitted.kind = "Ok" =>
        \A i \in 1..Len(emitted.lines) :
            /\ emitted.lines[i] # <<>>
            /\ emitted.lines[i][1] \notin {"import", "export"}

\* The loop of protect_jsx_with_children is inside an iteration only while
\* iterations is within the limit
C27_IterationsBounded ==
    /\ loop.iterations <= MAX_JSX_PLACEHOLDERS + 1
    /\ loop.pc = "scanning" => loop.iterations <= MAX_JSX_PLACEHOLDERS

\* An iteration ends with a new placeholder installed or with the exit of the
\* loop, and a pass of the scan that does not return moves its position on
C27_Progress ==
    /\ (loop.pc = "scanning" /\ loop'.pc # "scanning") =>
          \/ loop'.pc = "done"
          \/ /\ loop'.pc = "top"
             /\ loop'.counter = loop.counter + 1
             /\ loop.counter \notin DOMAIN loop.placeholders
             /\ loop.counter \in DOMAIN loop'.placeholders
             /\ Placeholder(loop.counter) \in Range(loop'.content)
    /\ (loop.pc = "top" /\ loop'.pc # "top") => loop'.pc \in {"scanning", "done"}
    /\ (scan.state = "running" /\ scan'.state = "running") =>
          scan'.pos > scan.pos

\* C27: protect_jsx_components terminates on every text: the loop over the
\* usages with children runs at most MAX_JSX_PLACEHOLDERS iterations, each
\* iteration installs a new placeholder or leaves the loop, and each pass of
\* the scan of find_matching_close_tag moves its position forward until it
\* returns.
C27_Terminates ==
    /\ <>(loop.pc = "done")
    /\ []C27_IterationsBounded
    /\ [][C27_Progress]_vars

\* The guard has returned after a scan gave up on tags nested too deeply
C27_Witness ==
    /\ loop.pc = "done"
    /\ scan.state = "returned"
    /\ ~scan.found
    /\ scan.nesting > MAX_JSX_NESTING_DEPTH

\* The places renderer c is at: positions of the caches, and leases
C28_Positions(c) ==
    {<<w, i>> \in Workers \X (1..MaxCtx) : i <= Len(cache[w]) /\ cache[w][i] = c}
C28_Leases(c) ==
    {<<w, "held">> : w \in {v \in Workers : c \in held[v]}} \cup
    {<<w, "batch">> : w \in {v \in Workers : lease[v] = c}}

\* A checkout hands out a renderer that no lease held before it
C28_FreshLease ==
    \A w \in Workers : \A c \in held'[w] \ held[w] :
        \A v \in Workers : c \notin Leased(v)

\* C28: leases are exclusive: a renderer that exists is held by exactly one
\* live lease or stored at exactly one position of the cache of its thread,
\* never both and never twice, so two checkouts without a return in between
\* never yield the same renderer.
C28_ExclusiveLeases ==
    /\ [](\A c \in CtxIds :
            /\ (creator[c] # 0 /\ c \notin destroyed) =>
                  Cardinality(C28_Positions(c)) + Cardinality(C28_Leases(c)) = 1
            /\ (creator[c] = 0 \/ c \in destroyed) =>
                  C28_Positions(c) = {} /\ C28_Leases(c) = {}
            /\ \A p \in C28_Positions(c) : p[1] = creator[c])
    /\ [][C28_FreshLease]_vars

\* Two leases are live on a thread whose cache holds a third renderer
C28_Witness ==
    \E w \in Workers : Cardinality(held[w]) >= 2 /\ cache[w] # <<>>

\* C29: the number of renderers cached for a profile never exceeds
\* max_cached_per_key of the pool that performed the return, for every
\* capacity a pool can be built with, also when pools with different
\* capacities are used on the same thread.
C29_CacheWithinCapacity ==
    [][/\ \A c \in held[PoolsThread] \ held'[PoolsThread] :
             Len(cache'[PoolsThread]) <= pools[leasePool[c]].max_cached_per_key
       /\ \A p \in PoolIds : \A n \in 0..MaxWarm :
             (PoolWarm(p, PoolsThread, n) /\ nextId' > nextId) =>
                 Len(cache'[PoolsThread]) <= pools[p].max_cached_per_key]_vars

\* C30: every renderer handed out by a pool's checkout was built with that
\* pool's static_dir, also when pools with different static_dir values are
\* used on the same thread.
C30_OwnRenderers ==
    \A c \in CtxIds :
        leasePool[c] # 0 =>
            pools[madeBy[c]].static_dir = pools[leasePool[c]].static_dir

====
